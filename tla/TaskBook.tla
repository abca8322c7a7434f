------------------------------ MODULE TaskBook ------------------------------
(***************************************************************************)
(* The TaskBook actor of a node (node/src/task_book.rs).                   *)
(*                                                                         *)
(* One FIFO mailbox carries the router's directives (from `ingest`), the   *)
(* engine's digest requests (from the automaton) and prune requests (from  *)
(* the reporter).  The three senders run concurrently, so messages queue   *)
(* in any order; the actor handles one at a time.                          *)
(*                                                                         *)
(* A directive is a height and what it says: a task (Announce) or Skip.    *)
(* `ingest` never delivers the third kind, TipReport (TipReports.tla).     *)
(***************************************************************************)
EXTENDS Directives, Sequences

CONSTANTS Requests,       \* digest requests; each is made at most once
          PruneSlack,     \* PRUNE_SLACK, 1024 in the code
          MailboxBound,   \* bound: messages queued at a time
          None

Messages ==
    [type : {"directive"}, directive : Directives]
        \cup [type : {"subscribe"}, request : Requests]
        \cup [type : {"prune"}, floor : Heights]

ASSUME TaskBookAssumption ==
    /\ MaxHeight \in Nat
    /\ PruneSlack \in Nat
    /\ MailboxBound \in Nat
    /\ None \notin Resolutions /\ None \notin Heights
    /\ Skip \notin Tasks

VARIABLES
    mailbox,      \* messages queued, first out first
    directives,   \* resolution recorded per height, None if there is none
    maxSeen,      \* highest height with any directive, -1 for the code's None
    waiters,      \* requests parked in the actor
    asked,        \* the height each request is for, None before it is made
    answer,       \* the resolution sent to each request, None before
    floorAsked,   \* highest floor the reporter has asked to prune below
    heard,        \* history: every directive handled
    standing      \* history: what stands at each height, by rule, unpruned

actorVars == <<directives, maxSeen, waiters, answer, heard, standing>>
vars == <<mailbox, directives, maxSeen, waiters, asked, answer, floorAsked, heard,
          standing>>

SaturatingSub(a, b) == IF a > b THEN a - b ELSE 0

\* `split_off`: the log keeps the heights at or above the floor.
KeptFrom(log, floor) == [h \in Heights |-> IF h < floor THEN None ELSE log[h]]

TypeOK ==
    /\ mailbox \in Seq(Messages)
    /\ directives \in [Heights -> Resolutions \cup {None}]
    /\ maxSeen \in Heights \cup {-1}
    /\ waiters \subseteq Requests
    /\ asked \in [Requests -> Heights \cup {None}]
    /\ answer \in [Requests -> Resolutions \cup {None}]
    /\ floorAsked \in Heights
    /\ heard \subseteq Directives
    /\ standing \in [Heights -> Resolutions \cup {None}]

Init ==
    /\ mailbox = <<>>
    /\ directives = [h \in Heights |-> None]
    /\ maxSeen = -1
    /\ waiters = {}
    /\ asked = [r \in Requests |-> None]
    /\ answer = [r \in Requests |-> None]
    /\ floorAsked = 0
    /\ heard = {}
    /\ standing = [h \in Heights |-> None]

-----------------------------------------------------------------------------
(* The mailbox handles: what the three senders enqueue.                    *)

Enqueue(m) ==
    /\ Len(mailbox) < MailboxBound
    /\ mailbox' = Append(mailbox, m)
    /\ UNCHANGED actorVars

Deliver(d) ==
    /\ Enqueue([type |-> "directive", directive |-> d])
    /\ UNCHANGED <<asked, floorAsked>>

Subscribe(r, h) ==
    /\ asked[r] = None
    /\ asked' = [asked EXCEPT ![r] = h]
    /\ Enqueue([type |-> "subscribe", request |-> r])
    /\ UNCHANGED floorAsked

\* The reporter's tip only rises, and with it the floor it asks for.
PruneBelow(floor) ==
    /\ floor > floorAsked
    /\ floorAsked' = floor
    /\ Enqueue([type |-> "prune", floor |-> floor])
    /\ UNCHANGED asked

-----------------------------------------------------------------------------
(* The actor: `run` takes one message and its handler runs to the end.     *)

Receive(type) ==
    /\ mailbox # <<>>
    /\ Head(mailbox).type = type
    /\ mailbox' = Tail(mailbox)
    /\ UNCHANGED <<asked, floorAsked>>

\* Send res to every request of rs.
Resolve(rs, res) == [r \in Requests |-> IF r \in rs THEN res ELSE answer[r]]

ParkedAt(h) == {r \in waiters : asked[r] = h}

\* Mutant of PassedOver: an off-by-one forgets the waiter right below h.
PassedOverButNext(h) == {r \in waiters : asked[r] < h - 1 /\ directives[asked[r]] = None}

\* Waiters below h that rule 2 resolves, with the code's defensive re-check.
PassedOver(h) == {r \in waiters : asked[r] < h /\ directives[asked[r]] = None}

\* Mutant of KeepRecorded: the last announcement wins.
KeepLatest(d) ==
    /\ directives[d.height] # None
    /\ ~(directives[d.height] \in Tasks /\ d.says = Skip)
    /\ directives' = [directives EXCEPT ![d.height] = d.says]
    /\ UNCHANGED <<maxSeen, waiters, answer>>

\* An identical replay, or a conflict: the recorded directive stays.
KeepRecorded(d) ==
    /\ directives[d.height] # None
    /\ ~(directives[d.height] \in Tasks /\ d.says = Skip)
    /\ UNCHANGED <<directives, maxSeen, waiters, answer>>

\* The router's one change of mind: Skip replaces a recorded Announce.
OverrideBySkip(d) ==
    /\ directives[d.height] \in Tasks
    /\ d.says = Skip
    /\ directives' = [directives EXCEPT ![d.height] = Skip]
    /\ waiters' = waiters \ ParkedAt(d.height)
    /\ answer' = Resolve(ParkedAt(d.height), Skip)
    /\ UNCHANGED maxSeen

BelowHorizon(d) == d.height < SaturatingSub(maxSeen, PruneSlack)

IgnoreBelowHorizon(d) ==
    /\ directives[d.height] = None
    /\ BelowHorizon(d)
    /\ UNCHANGED <<directives, maxSeen, waiters, answer>>

RecordLower(d) ==
    /\ directives[d.height] = None
    /\ ~BelowHorizon(d)
    /\ d.height <= maxSeen
    /\ directives' = [directives EXCEPT ![d.height] = d.says]
    /\ waiters' = waiters \ ParkedAt(d.height)
    /\ answer' = Resolve(ParkedAt(d.height), d.says)
    /\ UNCHANGED maxSeen

\* Mutant of RecordHighest: max_seen kept as the next expected height.
RecordNextExpected(d) ==
    /\ directives[d.height] = None
    /\ d.height > maxSeen
    /\ maxSeen' = d.height + 1
    /\ UNCHANGED <<directives, waiters, answer>>

\* A new highest height: rule 2 resolves what it passed over, and the log is
\* pruned to the slack.
RecordHighest(d) ==
    /\ directives[d.height] = None
    /\ d.height > maxSeen
    /\ maxSeen' = d.height
    /\ directives' = KeptFrom([directives EXCEPT ![d.height] = d.says],
                              SaturatingSub(d.height, PruneSlack))
    /\ waiters' = waiters \ (ParkedAt(d.height) \cup PassedOver(d.height))
    /\ answer' = [r \in Requests |->
                    IF r \in ParkedAt(d.height) THEN d.says
                    ELSE IF r \in PassedOver(d.height) THEN Skip
                    ELSE answer[r]]

HandleDirective ==
    /\ Receive("directive")
    /\ LET d == Head(mailbox).directive
       IN  /\ heard' = heard \cup {d}
           /\ standing' = [standing EXCEPT ![d.height] = Stands(@, d.says)]
           /\ \/ KeepRecorded(d)
              \/ OverrideBySkip(d)
              \/ IgnoreBelowHorizon(d)
              \/ RecordLower(d)
              \/ RecordHighest(d)

AnswerRecorded(r) ==
    /\ directives[asked[r]] # None
    /\ answer' = Resolve({r}, directives[asked[r]])
    /\ UNCHANGED waiters

AnswerPassedOver(r) ==
    /\ directives[asked[r]] = None
    /\ asked[r] < maxSeen
    /\ answer' = Resolve({r}, Skip)
    /\ UNCHANGED waiters

\* Mutant of Park: the responder is dropped.
ParkNowhere(r) ==
    /\ directives[asked[r]] = None
    /\ ~(asked[r] < maxSeen)
    /\ UNCHANGED <<waiters, answer>>

Park(r) ==
    /\ directives[asked[r]] = None
    /\ ~(asked[r] < maxSeen)
    /\ waiters' = waiters \cup {r}
    /\ UNCHANGED answer

\* Mutant of HandleSubscribe: max_seen compared before the log is looked up.
SubscribePassedFirst ==
    /\ Receive("subscribe")
    /\ LET r == Head(mailbox).request
       IN  \/ /\ asked[r] < maxSeen
              /\ answer' = Resolve({r}, Skip)
              /\ UNCHANGED waiters
           \/ ~(asked[r] < maxSeen) /\ (AnswerRecorded(r) \/ Park(r))
    /\ UNCHANGED <<directives, maxSeen, heard, standing>>

HandleSubscribe ==
    /\ Receive("subscribe")
    /\ LET r == Head(mailbox).request
       IN  AnswerRecorded(r) \/ AnswerPassedOver(r) \/ Park(r)
    /\ UNCHANGED <<directives, maxSeen, heard, standing>>

HandlePrune ==
    /\ Receive("prune")
    /\ directives' = KeptFrom(directives, Head(mailbox).floor)
    /\ UNCHANGED <<maxSeen, waiters, answer, heard, standing>>

Handle == HandleDirective \/ HandleSubscribe \/ HandlePrune

Next ==
    \/ \E d \in Directives : Deliver(d)
    \/ \E r \in Requests, h \in Heights : Subscribe(r, h)
    \/ \E floor \in Heights : PruneBelow(floor)
    \/ Handle

Spec == Init /\ [][Next]_vars

-----------------------------------------------------------------------------
(* Properties.                                                             *)

\* A digest request is never lost and never answered twice: it is queued,
\* parked or answered, and in one of the three only (the engine's propose
\* would otherwise stay pending for ever, task_book.rs:88).
Queued(r) ==
    \E i \in 1 .. Len(mailbox) : mailbox[i] = [type |-> "subscribe", request |-> r]
NoRequestLost ==
    \A r \in Requests :
        /\ asked[r] # None <=> (Queued(r) \/ r \in waiters \/ answer[r] # None)
        /\ r \in waiters => ~Queued(r) /\ answer[r] = None
        /\ answer[r] # None => ~Queued(r)

\* What a parked request waits for is undecided: its height has no directive
\* and the router has not been heard above it (task_book.rs:141, with the
\* one height the comment leaves out: max_seen itself, once pruned).
ParkedUndecided ==
    \A r \in waiters : directives[asked[r]] = None /\ asked[r] >= maxSeen

\* The comment's own wording, strictly above max_seen (task_book.rs:141-142).
ParkedAboveMaxSeen ==
    \A r \in waiters : directives[asked[r]] = None /\ asked[r] > maxSeen

\* Of the announcements for a height the first one wins: two requests for a
\* height that neither horizon has passed never get two different tasks,
\* whatever conflicting directives arrive in between (task_book.rs:198-221).
Live(h) == h >= floorAsked /\ h >= maxSeen - PruneSlack
FirstAnnouncementWins ==
    \A r, q \in Requests :
        (/\ asked[r] = asked[q]
         /\ asked[r] # None
         /\ Live(asked[r])
         /\ {answer[r], answer[q]} \subseteq Tasks) => answer[r] = answer[q]

\* The actor implements the normative skip rules (task_book.rs:8-38): where
\* neither horizon has passed, a request gets the directive that stands at
\* its height, whatever has been pruned, overridden or replayed since, and
\* Skip by rule 2 only while there is none.
Rules == INSTANCE SkipRules WITH floor <- floorAsked
ImplementsSkipRules == Rules!Spec

=============================================================================
