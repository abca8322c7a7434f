--------------------------- MODULE TaskBookProofs ---------------------------
(***************************************************************************)
(* What TaskBook.tla promises, for every bound, slack, task and request:   *)
(* type correctness, the safety invariants of its run and the refinement   *)
(* of SkipRules, from one inductive invariant.                             *)
(***************************************************************************)
EXTENDS TaskBook, TLAPS

\* Every recorded directive, and the highest height, was heard.
LogHeard ==
    /\ \A h \in Heights :
          directives[h] # None => [height |-> h, says |-> directives[h]] \in heard
    /\ maxSeen # -1 => \E d \in heard : d.height = maxSeen

\* A queued request is asked, neither parked nor answered, and queued once.
QueueOK ==
    /\ \A i \in 1 .. Len(mailbox) :
          mailbox[i].type = "subscribe" =>
              LET r == mailbox[i].request
              IN  asked[r] # None /\ answer[r] = None /\ r \notin waiters
    /\ \A i, j \in 1 .. Len(mailbox) :
          (mailbox[i].type = "subscribe" /\ mailbox[i] = mailbox[j]) => i = j
    /\ \A i \in 1 .. Len(mailbox) :
          mailbox[i].type = "prune" => mailbox[i].floor <= floorAsked

\* A parked request is asked and not answered; an answered one was asked.
RequestsOK ==
    /\ \A r \in waiters : asked[r] # None /\ answer[r] = None
    /\ \A r \in Requests : answer[r] # None => asked[r] # None

\* A task handed out at a live height is still recorded there, or Skip is.
HandedOutStays ==
    \A r \in Requests :
        (asked[r] # None /\ answer[r] \in Tasks /\ Live(asked[r])) =>
            directives[asked[r]] \in {answer[r], Skip}

\* Where neither horizon has passed, the log holds what stands by the rules;
\* below max_seen's slack it holds nothing; nothing was heard above max_seen.
StandingOK ==
    /\ \A h \in Heights : Live(h) => directives[h] = standing[h]
    /\ \A h \in Heights : h < maxSeen - PruneSlack => directives[h] = None
    /\ \A d \in heard : d.height <= maxSeen

IInv ==
    /\ TypeOK
    /\ StandingOK
    /\ LogHeard
    /\ QueueOK
    /\ RequestsOK
    /\ ParkedUndecided
    /\ HandedOutStays
    /\ FirstAnnouncementWins
    /\ NoRequestLost
-----------------------------------------------------------------------------
(* Facts about the mailbox.                                                *)

\* What taking the head leaves.
LEMMA TailFacts ==
    ASSUME NEW S, NEW q \in Seq(S), q # <<>>
    PROVE  /\ Tail(q) \in Seq(S)
           /\ Len(q) \in Nat /\ Len(q) >= 1
           /\ Len(Tail(q)) = Len(q) - 1
           /\ Head(q) = q[1] /\ q[1] \in S
           /\ \A i \in 1 .. Len(Tail(q)) : Tail(q)[i] = q[i + 1]
  OBVIOUS

\* What appending adds.
LEMMA AppendFacts ==
    ASSUME NEW S, NEW q \in Seq(S), NEW m \in S
    PROVE  /\ Append(q, m) \in Seq(S)
           /\ Len(q) \in Nat
           /\ Len(Append(q, m)) = Len(q) + 1
           /\ \A i \in 1 .. Len(q) : Append(q, m)[i] = q[i]
           /\ Append(q, m)[Len(q) + 1] = m
  OBVIOUS

\* The fields of each kind of message.
LEMMA MessageFields ==
    ASSUME NEW m \in Messages
    PROVE  /\ m.type = "directive" =>
                m.directive \in Directives
                /\ m = [type |-> "directive", directive |-> m.directive]
           /\ m.type = "subscribe" =>
                m.request \in Requests
                /\ m = [type |-> "subscribe", request |-> m.request]
           /\ m.type = "prune" => m.floor \in Heights
           /\ m.type \in {"directive", "subscribe", "prune"}
  BY DEF Messages

-----------------------------------------------------------------------------
(* The actions preserve the invariant.                                     *)

\* The initial states satisfy the invariant.
LEMMA InitInv == Init => IInv
  BY TaskBookAssumption
  DEF Init, IInv, TypeOK, StandingOK, LogHeard, QueueOK, RequestsOK, ParkedUndecided,
      HandedOutStays, FirstAnnouncementWins, NoRequestLost, Queued, Live,
      Heights, Resolutions

\* Enqueueing a directive keeps the invariant.
LEMMA DeliverInv ==
    ASSUME IInv, NEW d \in Directives, Deliver(d)
    PROVE  IInv'
<1> DEFINE m == [type |-> "directive", directive |-> d]
<1>1. m \in Messages
  BY DEF Messages
<1>2. /\ mailbox' = Append(mailbox, m)
      /\ UNCHANGED <<directives, maxSeen, waiters, answer, heard, standing, asked, floorAsked>>
  BY DEF Deliver, Enqueue, actorVars
<1>3. mailbox \in Seq(Messages)
  BY DEF IInv, TypeOK
<1>4. /\ mailbox' \in Seq(Messages)
      /\ Len(mailbox) \in Nat
      /\ Len(mailbox') = Len(mailbox) + 1
      /\ \A i \in 1 .. Len(mailbox) : mailbox'[i] = mailbox[i]
      /\ mailbox'[Len(mailbox) + 1] = m
  BY <1>1, <1>2, <1>3, AppendFacts
<1> HIDE DEF m
<1>5. m.type = "directive"
  BY DEF m
<1>6. TypeOK' /\ StandingOK' /\ LogHeard' /\ RequestsOK' /\ ParkedUndecided'
      /\ HandedOutStays' /\ FirstAnnouncementWins'
  BY <1>2, <1>4
  DEF IInv, TypeOK, StandingOK, LogHeard, RequestsOK, ParkedUndecided, HandedOutStays,
      FirstAnnouncementWins, Live
<1>7. QueueOK'
  BY <1>2, <1>4, <1>5 DEF IInv, QueueOK
<1>8. \A r \in Requests : Queued(r)' <=> Queued(r)
  BY <1>2, <1>4, <1>5 DEF Queued
<1>9. NoRequestLost'
  BY <1>2, <1>8 DEF IInv, NoRequestLost
<1> QED
  BY <1>6, <1>7, <1>9 DEF IInv

\* A new request is queued, and only there.
LEMMA SubscribeInv ==
    ASSUME IInv, NEW r \in Requests, NEW h \in Heights, Subscribe(r, h)
    PROVE  IInv'
<1> DEFINE m == [type |-> "subscribe", request |-> r]
<1>1. m \in Messages
  BY DEF Messages
<1>2. /\ mailbox' = Append(mailbox, m)
      /\ asked[r] = None
      /\ asked' = [asked EXCEPT ![r] = h]
      /\ UNCHANGED <<directives, maxSeen, waiters, answer, heard, standing, floorAsked>>
  BY DEF Subscribe, Enqueue, actorVars
<1>3. mailbox \in Seq(Messages)
  BY DEF IInv, TypeOK
<1>4. /\ mailbox' \in Seq(Messages)
      /\ Len(mailbox) \in Nat
      /\ Len(mailbox') = Len(mailbox) + 1
      /\ \A i \in 1 .. Len(mailbox) : mailbox'[i] = mailbox[i]
      /\ mailbox'[Len(mailbox) + 1] = m
  BY <1>1, <1>2, <1>3, AppendFacts
<1>5. m.type = "subscribe" /\ m.request = r
  OBVIOUS
<1>6. r \notin waiters /\ answer[r] = None /\ h # None
  BY <1>2, TaskBookAssumption DEF IInv, RequestsOK
<1>7. \A i \in 1 .. Len(mailbox) :
         mailbox[i].type = "subscribe" => mailbox[i].request # r
  BY <1>2 DEF IInv, QueueOK
<1>8. /\ \A q \in Requests : q # r => asked'[q] = asked[q]
      /\ asked'[r] = h
  BY <1>2 DEF IInv, TypeOK
<1>9. TypeOK' /\ StandingOK' /\ LogHeard' /\ RequestsOK' /\ ParkedUndecided'
  BY <1>2, <1>4, <1>6, <1>8
  DEF IInv, TypeOK, StandingOK, Live, LogHeard, RequestsOK, ParkedUndecided
<1>10. HandedOutStays' /\ FirstAnnouncementWins'
  BY <1>2, <1>6, <1>8, TaskBookAssumption
  DEF IInv, TypeOK, HandedOutStays, FirstAnnouncementWins, Live, Resolutions
<1>11. QueueOK'
  <2>1. \A i \in 1 .. Len(mailbox) : mailbox[i] \in Messages
    BY <1>3
  <2>2. \A i \in 1 .. Len(mailbox) : mailbox[i] # m
    BY <1>5, <1>7
  <2> HIDE DEF m
  <2>3. \A i \in 1 .. Len(mailbox) :
           mailbox[i].type = "subscribe" => mailbox[i].request \in Requests
    BY <2>1, MessageFields
  <2>4. \A i \in 1 .. Len(mailbox') :
          mailbox'[i].type = "subscribe" =>
              LET q == mailbox'[i].request
              IN  asked'[q] # None /\ answer'[q] = None /\ q \notin waiters'
    BY <1>2, <1>4, <1>5, <1>6, <1>7, <1>8, <2>3 DEF IInv, QueueOK
  <2>5. \A i, j \in 1 .. Len(mailbox') :
          (mailbox'[i].type = "subscribe" /\ mailbox'[i] = mailbox'[j]) => i = j
    BY <1>4, <2>2 DEF IInv, QueueOK
  <2>6. \A i \in 1 .. Len(mailbox') :
          mailbox'[i].type = "prune" => mailbox'[i].floor <= floorAsked'
    BY <1>2, <1>4, <1>5 DEF IInv, QueueOK
  <2> QED
    BY <2>4, <2>5, <2>6 DEF QueueOK
<1>12. Queued(r)' /\ \A q \in Requests : q # r => (Queued(q)' <=> Queued(q))
  <2>1. Queued(r)'
    BY <1>4, <1>5 DEF Queued
  <2>2. \A q \in Requests : q # r => [type |-> "subscribe", request |-> q] # m
    BY <1>5
  <2>3. ASSUME NEW q \in Requests, q # r
        PROVE  Queued(q)' <=> Queued(q)
    <3> DEFINE mq == [type |-> "subscribe", request |-> q]
    <3>1. mq # m
      BY <2>2, <2>3
    <3>2. Queued(q) <=> \E i \in 1 .. Len(mailbox) : mailbox[i] = mq
      BY DEF Queued
    <3>3. Queued(q)' <=> \E i \in 1 .. Len(mailbox') : mailbox'[i] = mq
      BY DEF Queued
    <3> HIDE DEF m, mq
    <3> QED
      BY <1>4, <3>1, <3>2, <3>3
  <2> QED
    BY <2>1, <2>3
<1>13. NoRequestLost'
  BY <1>2, <1>6, <1>8, <1>12 DEF IInv, NoRequestLost
<1> QED
  BY <1>9, <1>10, <1>11, <1>13 DEF IInv

\* Asking for a prune keeps the invariant and raises the floor.
LEMMA PruneBelowInv ==
    ASSUME IInv, NEW floor \in Heights, PruneBelow(floor)
    PROVE  IInv'
<1> DEFINE m == [type |-> "prune", floor |-> floor]
<1>1. m \in Messages
  BY DEF Messages
<1>2. /\ mailbox' = Append(mailbox, m)
      /\ floor > floorAsked /\ floorAsked' = floor
      /\ UNCHANGED <<directives, maxSeen, waiters, answer, heard, standing, asked>>
  BY DEF PruneBelow, Enqueue, actorVars
<1>3. mailbox \in Seq(Messages) /\ floorAsked \in Heights
  BY DEF IInv, TypeOK
<1>4. /\ mailbox' \in Seq(Messages)
      /\ Len(mailbox) \in Nat
      /\ Len(mailbox') = Len(mailbox) + 1
      /\ \A i \in 1 .. Len(mailbox) : mailbox'[i] = mailbox[i]
      /\ mailbox'[Len(mailbox) + 1] = m
  BY <1>1, <1>2, <1>3, AppendFacts
<1>5. m.type = "prune" /\ m.floor = floor
  OBVIOUS
<1> HIDE DEF m
<1>6. TypeOK' /\ LogHeard' /\ RequestsOK' /\ ParkedUndecided'
  BY <1>2, <1>4 DEF IInv, TypeOK, LogHeard, RequestsOK, ParkedUndecided
<1>7. \A h \in Heights : Live(h)' => Live(h)
  BY <1>2, <1>3 DEF Live, Heights
<1>8. HandedOutStays' /\ FirstAnnouncementWins' /\ StandingOK'
  BY <1>2, <1>7 DEF IInv, TypeOK, HandedOutStays, FirstAnnouncementWins, StandingOK
<1>9. QueueOK'
  <2>1. \A i \in 1 .. Len(mailbox) :
           mailbox[i].type = "prune" => mailbox[i].floor \in Heights
    BY <1>3, MessageFields
  <2> QED
    BY <1>2, <1>3, <1>4, <1>5, <2>1 DEF IInv, QueueOK, Heights
<1>10. \A r \in Requests : Queued(r)' <=> Queued(r)
  BY <1>2, <1>4, <1>5 DEF Queued
<1>11. NoRequestLost'
  BY <1>2, <1>10 DEF IInv, NoRequestLost
<1> QED
  BY <1>6, <1>8, <1>9, <1>11 DEF IInv

\* What taking the first message leaves of the queue.
LEMMA ReceiveFacts ==
    ASSUME IInv, NEW type, Receive(type)
    PROVE  /\ Head(mailbox) \in Messages
           /\ Head(mailbox).type = type
           /\ mailbox' \in Seq(Messages)
           /\ Len(mailbox) \in Nat /\ Len(mailbox) >= 1
           /\ Head(mailbox) = mailbox[1]
           /\ Len(mailbox') = Len(mailbox) - 1
           /\ \A i \in 1 .. Len(mailbox') :
                 mailbox'[i] = mailbox[i + 1] /\ mailbox'[i] \in Messages
           /\ UNCHANGED <<asked, floorAsked>>
  BY TailFacts DEF Receive, IInv, TypeOK

\* A handler that takes no request out of the queue and answers only parked
\* requests, each of which it unparks, loses no request.
LEMMA AnswersParkedOnly ==
    ASSUME IInv, NEW type, Receive(type), type # "subscribe",
           waiters' \subseteq waiters,
           answer' \in [Requests -> Resolutions \cup {None}],
           \A r \in Requests : r \notin waiters \ waiters' => answer'[r] = answer[r],
           \A r \in waiters \ waiters' : answer'[r] \in Resolutions
    PROVE  QueueOK' /\ RequestsOK' /\ NoRequestLost'
<1>1. \A r \in Requests : answer'[r] # answer[r] => r \in waiters
  OBVIOUS
<1>2. \A i \in 1 .. Len(mailbox) :
         mailbox[i].type = "subscribe" => mailbox[i].request \in Requests
  BY MessageFields DEF IInv, TypeOK
<1>3. waiters \subseteq Requests
  BY DEF IInv, TypeOK
<1>4. \A i \in 1 .. Len(mailbox') : i + 1 \in 1 .. Len(mailbox)
  BY ReceiveFacts
<1>5. QueueOK'
  <2>1. /\ \A i \in 1 .. Len(mailbox') : mailbox'[i] = mailbox[i + 1]
        /\ Len(mailbox) \in Nat /\ Len(mailbox') = Len(mailbox) - 1
        /\ UNCHANGED <<asked, floorAsked>>
    BY ReceiveFacts
  <2>2. ASSUME NEW i \in 1 .. Len(mailbox'), mailbox'[i].type = "subscribe"
        PROVE  LET r == mailbox'[i].request
               IN  asked'[r] # None /\ answer'[r] = None /\ r \notin waiters'
    <3>1. /\ mailbox'[i] = mailbox[i + 1]
          /\ i + 1 \in 1 .. Len(mailbox)
          /\ mailbox[i + 1].type = "subscribe"
      BY <1>4, <2>1, <2>2
    <3> DEFINE r == mailbox[i + 1].request
    <3>2. asked[r] # None /\ answer[r] = None /\ r \notin waiters /\ r \in Requests
      BY <1>2, <3>1 DEF IInv, QueueOK
    <3> QED
      BY <1>1, <2>1, <3>1, <3>2
  <2>3. ASSUME NEW i \in 1 .. Len(mailbox'), NEW j \in 1 .. Len(mailbox'),
               mailbox'[i].type = "subscribe", mailbox'[i] = mailbox'[j]
        PROVE  i = j
    <3>1. i + 1 = j + 1
      BY <1>4, <2>1, <2>3 DEF IInv, QueueOK
    <3> QED
      BY <2>1, <3>1
  <2>4. \A i \in 1 .. Len(mailbox') :
          mailbox'[i].type = "prune" => mailbox'[i].floor <= floorAsked'
    BY <1>4, <2>1 DEF IInv, QueueOK
  <2> QED
    BY <2>2, <2>3, <2>4 DEF QueueOK
<1>6. RequestsOK'
  BY <1>1, <1>3, ReceiveFacts DEF IInv, RequestsOK
<1>7. \A r \in Requests : Queued(r)' <=> Queued(r)
  <2> TAKE r \in Requests
  <2>1. mailbox[1] # [type |-> "subscribe", request |-> r]
    BY ReceiveFacts
  <2>2. Queued(r) => Queued(r)'
    <3>1. HAVE Queued(r)
    <3>2. PICK i \in 1 .. Len(mailbox) :
                mailbox[i] = [type |-> "subscribe", request |-> r]
      BY <3>1 DEF Queued
    <3>3. i - 1 \in 1 .. Len(mailbox') /\ (i - 1) + 1 = i
      BY <2>1, <3>2, ReceiveFacts
    <3>4. mailbox'[i - 1] = mailbox[i]
      BY <3>3, ReceiveFacts
    <3> QED
      BY <3>2, <3>3, <3>4 DEF Queued
  <2>3. Queued(r)' => Queued(r)
    BY <1>4, ReceiveFacts DEF Queued
  <2> QED
    BY <2>2, <2>3
<1>8. NoRequestLost'
  <2>1. None \notin Resolutions
    BY TaskBookAssumption
  <2> QED
    BY <1>3, <1>7, <2>1, ReceiveFacts DEF IInv, NoRequestLost
<1> QED
  BY <1>5, <1>6, <1>8

\* A prune only drops heights no live request needs.
LEMMA HandlePruneInv ==
    ASSUME IInv, HandlePrune
    PROVE  IInv'
<1> DEFINE floor == Head(mailbox).floor
<1>1. /\ Receive("prune")
      /\ directives' = KeptFrom(directives, floor)
      /\ UNCHANGED <<maxSeen, waiters, answer, heard, standing>>
  BY DEF HandlePrune
<1>2. UNCHANGED <<asked, floorAsked>> /\ mailbox' \in Seq(Messages)
  BY <1>1, ReceiveFacts
<1>3. floor \in Heights /\ floor <= floorAsked /\ floorAsked \in Heights
  <2>1. Head(mailbox) \in Messages /\ Head(mailbox).type = "prune"
        /\ Head(mailbox) = mailbox[1] /\ 1 \in 1 .. Len(mailbox)
    BY <1>1, ReceiveFacts
  <2> QED
    BY <2>1, MessageFields DEF IInv, QueueOK, TypeOK
<1> HIDE DEF floor
<1>4. /\ directives' \in [Heights -> Resolutions \cup {None}]
      /\ \A h \in Heights : directives'[h] \in {directives[h], None}
      /\ \A h \in Heights : h >= floor => directives'[h] = directives[h]
  BY <1>1, <1>3 DEF IInv, TypeOK, KeptFrom, Heights
<1>5. QueueOK' /\ RequestsOK' /\ NoRequestLost'
  <2>1. answer' \in [Requests -> Resolutions \cup {None}]
    BY <1>1 DEF IInv, TypeOK
  <2> QED
    BY <1>1, <2>1, AnswersParkedOnly
<1>6. TypeOK'
  BY <1>1, <1>2, <1>4 DEF IInv, TypeOK
<1>7. LogHeard'
  BY <1>1, <1>4 DEF IInv, LogHeard
<1>8. ParkedUndecided'
  BY <1>1, <1>2, <1>4 DEF IInv, TypeOK, RequestsOK, ParkedUndecided
<1>9. HandedOutStays' /\ FirstAnnouncementWins'
  BY <1>1, <1>2, <1>3, <1>4
  DEF IInv, TypeOK, HandedOutStays, FirstAnnouncementWins, Live, Heights
<1>10. StandingOK'
  BY <1>1, <1>2, <1>3, <1>4 DEF IInv, TypeOK, StandingOK, Live, Heights
<1> QED
  BY <1>5, <1>6, <1>7, <1>8, <1>9, <1>10 DEF IInv

\* A directive answers parked requests only: those of its height with what it
\* says, those it passes over with Skip.
LEMMA DirectiveAnswers ==
    ASSUME IInv, HandleDirective
    PROVE  /\ Receive("directive")
           /\ Head(mailbox).directive \in Directives
           /\ waiters' \subseteq waiters
           /\ answer' \in [Requests -> Resolutions \cup {None}]
           /\ \A r \in Requests : r \notin waiters \ waiters' => answer'[r] = answer[r]
           /\ \A r \in waiters \ waiters' :
                LET d == Head(mailbox).directive
                IN  \/ answer'[r] = d.says /\ asked[r] = d.height
                    \/ answer'[r] = Skip /\ asked[r] < d.height
           /\ \A r \in waiters \ waiters' : answer'[r] \in Resolutions
           /\ heard' = heard \cup {Head(mailbox).directive}
<1> DEFINE d == Head(mailbox).directive
<1>1. Receive("directive") /\ heard' = heard \cup {d}
  BY DEF HandleDirective
<1>2. d \in Directives
  BY <1>1, ReceiveFacts, MessageFields
<1>3. /\ waiters \subseteq Requests
      /\ answer \in [Requests -> Resolutions \cup {None}]
      /\ \A r \in waiters : asked[r] \in Heights
  BY DEF IInv, TypeOK, RequestsOK
<1>4. d.height \in Heights /\ d.says \in Resolutions
      /\ d = [height |-> d.height, says |-> d.says] /\ d \in heard'
  BY <1>1, <1>2 DEF Directives
<1>5. \/ KeepRecorded(d) \/ OverrideBySkip(d) \/ IgnoreBelowHorizon(d)
      \/ RecordLower(d) \/ RecordHighest(d)
  BY DEF HandleDirective
<1> HIDE DEF d
<1> DEFINE Goal ==
        /\ waiters' \subseteq waiters
        /\ answer' \in [Requests -> Resolutions \cup {None}]
        /\ \A r \in Requests : r \notin waiters \ waiters' => answer'[r] = answer[r]
        /\ \A r \in waiters \ waiters' :
             \/ answer'[r] = d.says /\ asked[r] = d.height
             \/ answer'[r] = Skip /\ asked[r] < d.height
        /\ \A r \in waiters \ waiters' : answer'[r] \in Resolutions
<1>6. ASSUME KeepRecorded(d) \/ IgnoreBelowHorizon(d)
      PROVE  Goal
  BY <1>3, <1>6 DEF KeepRecorded, IgnoreBelowHorizon
<1>7. ASSUME OverrideBySkip(d) \/ RecordLower(d)
      PROVE  Goal
  <2>1. /\ waiters' = waiters \ ParkedAt(d.height)
        /\ answer' = Resolve(ParkedAt(d.height), d.says)
    BY <1>7 DEF OverrideBySkip, RecordLower
  <2> QED
    BY <1>3, <1>4, <2>1 DEF ParkedAt, Resolve
<1>8. ASSUME RecordHighest(d)
      PROVE  Goal
  <2>1. /\ waiters' = waiters \ (ParkedAt(d.height) \cup PassedOver(d.height))
        /\ answer' = [r \in Requests |->
                        IF r \in ParkedAt(d.height) THEN d.says
                        ELSE IF r \in PassedOver(d.height) THEN Skip
                        ELSE answer[r]]
    BY <1>8 DEF RecordHighest
  <2>2. Skip \in Resolutions
    BY DEF Resolutions
  <2>3. \A r \in ParkedAt(d.height) : asked[r] = d.height
    BY DEF ParkedAt
  <2>4. \A r \in PassedOver(d.height) : asked[r] < d.height
    BY DEF PassedOver
  <2>5. ParkedAt(d.height) \subseteq waiters /\ PassedOver(d.height) \subseteq waiters
    BY DEF ParkedAt, PassedOver
  <2> QED
    BY <1>3, <1>4, <2>1, <2>2, <2>3, <2>4, <2>5
<1> QED
  BY <1>1, <1>2, <1>5, <1>6, <1>7, <1>8 DEF d

\* What a directive leaves of the log: a height keeps its resolution, turns a
\* task into Skip, is pruned below max_seen's slack, or is newly recorded.
LEMMA DirectiveLog ==
    ASSUME IInv, HandleDirective
    PROVE  LET d == Head(mailbox).directive
           IN  /\ directives' \in [Heights -> Resolutions \cup {None}]
               /\ maxSeen' \in Heights \cup {-1} /\ maxSeen' >= maxSeen
               /\ maxSeen' \in {maxSeen, d.height}
               /\ \A h \in Heights :
                    \/ directives'[h] = directives[h]
                    \/ directives[h] \in Tasks /\ directives'[h] = Skip
                       /\ d.height = h /\ d.says = Skip
                    \/ directives'[h] = None /\ h < maxSeen' - PruneSlack
                    \/ directives[h] = None /\ d.height = h /\ directives'[h] = d.says
               /\ \A r \in waiters' :
                    directives'[asked[r]] = None /\ asked[r] >= maxSeen'
               /\ \A r \in waiters \ waiters' :
                    answer'[r] \in Tasks =>
                        /\ directives[asked[r]] = None
                        /\ answer'[r] = d.says /\ asked[r] = d.height
                        /\ directives'[asked[r]] \in {d.says, None}
                        /\ asked[r] >= maxSeen' - PruneSlack => directives'[asked[r]] = d.says
<1> DEFINE d == Head(mailbox).directive
<1>1. d \in Directives /\ UNCHANGED <<asked, floorAsked>>
  BY DirectiveAnswers, ReceiveFacts
<1>2. /\ d.height \in Heights /\ d.says \in Resolutions
      /\ directives \in [Heights -> Resolutions \cup {None}]
      /\ maxSeen \in Heights \cup {-1}
      /\ waiters \subseteq Requests /\ answer \in [Requests -> Resolutions \cup {None}]
      /\ \A r \in waiters : /\ asked[r] \in Heights /\ directives[asked[r]] = None
                             /\ asked[r] >= maxSeen
      /\ Skip \in Resolutions /\ Skip \notin Tasks /\ None \notin Resolutions
      /\ PruneSlack \in Nat
  BY <1>1, TaskBookAssumption
  DEF Directives, IInv, TypeOK, RequestsOK, ParkedUndecided, Resolutions
<1>3. \A r \in waiters : answer[r] = None
  BY DEF IInv, RequestsOK
<1>4. \/ KeepRecorded(d) \/ OverrideBySkip(d) \/ IgnoreBelowHorizon(d)
      \/ RecordLower(d) \/ RecordHighest(d)
  BY DEF HandleDirective
<1>5. \A r \in waiters : r \in waiters' \/ r \notin waiters'
  OBVIOUS
<1> HIDE DEF d
<1> DEFINE Goal ==
        /\ directives' \in [Heights -> Resolutions \cup {None}]
        /\ maxSeen' \in Heights \cup {-1} /\ maxSeen' >= maxSeen
        /\ maxSeen' \in {maxSeen, d.height}
        /\ \A h \in Heights :
             \/ directives'[h] = directives[h]
             \/ directives[h] \in Tasks /\ directives'[h] = Skip
                /\ d.height = h /\ d.says = Skip
             \/ directives'[h] = None /\ h < maxSeen' - PruneSlack
             \/ directives[h] = None /\ d.height = h /\ directives'[h] = d.says
        /\ \A r \in waiters' :
             directives'[asked[r]] = None /\ asked[r] >= maxSeen'
        /\ \A r \in waiters \ waiters' :
             answer'[r] \in Tasks =>
                 /\ directives[asked[r]] = None
                 /\ answer'[r] = d.says /\ asked[r] = d.height
                 /\ directives'[asked[r]] \in {d.says, None}
                 /\ asked[r] >= maxSeen' - PruneSlack => directives'[asked[r]] = d.says
<1>6. ASSUME KeepRecorded(d) \/ IgnoreBelowHorizon(d)
      PROVE  Goal
  <2>1. UNCHANGED <<directives, maxSeen, waiters, answer>>
    BY <1>6 DEF KeepRecorded, IgnoreBelowHorizon
  <2>2. maxSeen' \in Heights \cup {-1} /\ maxSeen' >= maxSeen
    BY <1>2, <2>1 DEF Heights
  <2>3. waiters \ waiters' = {}
    BY <2>1
  <2>4. \A r \in waiters' :
             directives'[asked[r]] = None /\ asked[r] >= maxSeen'
    BY <1>2, <2>1
  <2> QED
    BY <1>2, <2>1, <2>2, <2>3, <2>4
<1>7. ASSUME OverrideBySkip(d)
      PROVE  Goal
  <2>1. ParkedAt(d.height) = {}
    BY <1>2, <1>7, TaskBookAssumption DEF OverrideBySkip, ParkedAt, Resolutions
  <2> QED
    <3>1. /\ UNCHANGED <<maxSeen, waiters>> /\ d.says = Skip
          /\ directives[d.height] \in Tasks
          /\ directives' = [directives EXCEPT ![d.height] = Skip]
      BY <1>7, <2>1 DEF OverrideBySkip
    <3>2. maxSeen' \in Heights \cup {-1} /\ maxSeen' >= maxSeen
      BY <1>2, <3>1 DEF Heights
    <3>3. /\ directives' \in [Heights -> Resolutions \cup {None}]
          /\ directives'[d.height] = Skip
          /\ \A h \in Heights : h # d.height => directives'[h] = directives[h]
      BY <1>2, <3>1
    <3>4. \A r \in waiters' :
             directives'[asked[r]] = None /\ asked[r] >= maxSeen'
      BY <1>2, <3>1, <3>3, TaskBookAssumption DEF Resolutions
    <3> QED
      BY <3>1, <3>2, <3>3, <3>4
<1>8. ASSUME RecordLower(d)
      PROVE  Goal
  BY <1>2, <1>3, <1>8 DEF RecordLower, ParkedAt, Resolve, Heights
<1>9. ASSUME RecordHighest(d)
      PROVE  Goal
  <2>1. /\ directives[d.height] = None
        /\ d.height > maxSeen
        /\ maxSeen' = d.height
        /\ directives' = KeptFrom([directives EXCEPT ![d.height] = d.says],
                                  SaturatingSub(d.height, PruneSlack))
        /\ waiters' = waiters \ (ParkedAt(d.height) \cup PassedOver(d.height))
        /\ answer' = [r \in Requests |->
                        IF r \in ParkedAt(d.height) THEN d.says
                        ELSE IF r \in PassedOver(d.height) THEN Skip
                        ELSE answer[r]]
    BY <1>9 DEF RecordHighest
  <2>2. /\ directives' \in [Heights -> Resolutions \cup {None}]
        /\ directives'[d.height] = d.says
        /\ \A h \in Heights : h # d.height =>
              \/ directives'[h] = directives[h]
              \/ directives'[h] = None /\ h < d.height - PruneSlack
    BY <1>2, <2>1 DEF KeptFrom, SaturatingSub, Heights
  <2>3. \A r \in waiters' : r \in waiters /\ asked[r] > d.height
    BY <1>2, <2>1 DEF ParkedAt, PassedOver, Heights
  <2>4. \A r \in waiters' :
           directives'[asked[r]] = None /\ asked[r] >= maxSeen'
    <3> TAKE r \in waiters'
    <3>1. asked[r] \in Heights /\ directives[asked[r]] = None /\ asked[r] > d.height
      BY <1>2, <2>3
    <3>2. asked[r] # d.height /\ asked[r] >= d.height
      BY <1>2, <3>1 DEF Heights
    <3> QED
      BY <2>1, <2>2, <3>1, <3>2
  <2>5. \A r \in waiters \ waiters' :
           answer'[r] \in Tasks => answer'[r] = d.says /\ asked[r] = d.height
    BY <1>2, <2>1 DEF ParkedAt
  <2>6. \A r \in waiters \ waiters' :
             answer'[r] \in Tasks =>
                 /\ directives[asked[r]] = None
                 /\ answer'[r] = d.says /\ asked[r] = d.height
                 /\ directives'[asked[r]] \in {d.says, None}
                 /\ asked[r] >= maxSeen' - PruneSlack => directives'[asked[r]] = d.says
    BY <1>2, <2>2, <2>5
  <2>7. maxSeen' \in Heights \cup {-1} /\ maxSeen' >= maxSeen
        /\ maxSeen' \in {maxSeen, d.height}
    BY <1>2, <2>1 DEF Heights
  <2> QED
    BY <2>1, <2>2, <2>4, <2>6, <2>7
<1> QED
  BY <1>4, <1>6, <1>7, <1>8, <1>9 DEF d

\* A horizon that rises keeps what is above it above it.
LEMMA SlackShift ==
    ASSUME NEW a \in Int, NEW b \in Int, NEW s \in Int, NEW h \in Int,
           b >= a, h >= b - s
    PROVE  h >= a - s /\ ~(h < b - s)
  OBVIOUS

\* A directive leaves in the log what stands by the rules at every height that
\* no horizon has passed, and nothing below the slack.
LEMMA DirectiveStands ==
    ASSUME IInv, HandleDirective
    PROVE  /\ StandingOK'
           /\ standing' \in [Heights -> Resolutions \cup {None}]
<1> DEFINE d == Head(mailbox).directive
<1>1. /\ d \in Directives /\ heard' = heard \cup {d}
      /\ standing' = [standing EXCEPT ![d.height] = Stands(@, d.says)]
      /\ UNCHANGED <<asked, floorAsked>>
  BY DirectiveAnswers, ReceiveFacts DEF HandleDirective
<1>2. /\ d.height \in Heights /\ d.says \in Resolutions
      /\ directives \in [Heights -> Resolutions \cup {None}]
      /\ standing \in [Heights -> Resolutions \cup {None}]
      /\ maxSeen \in Heights \cup {-1} /\ floorAsked \in Heights
      /\ Skip \notin Tasks /\ None \notin Resolutions /\ None \notin Tasks
      /\ PruneSlack \in Nat
      /\ d.height \in Nat /\ maxSeen \in Int
      /\ heard \subseteq Directives
  BY <1>1, TaskBookAssumption DEF Directives, IInv, TypeOK, Resolutions, Heights
<1>3. /\ \A h \in Heights :
            h >= floorAsked /\ h >= maxSeen - PruneSlack => directives[h] = standing[h]
      /\ \A h \in Heights : h < maxSeen - PruneSlack => directives[h] = None
      /\ \A e \in heard : e.height <= maxSeen
  BY DEF IInv, StandingOK, Live
<1>4. \A h \in Heights : directives[h] # None => h <= maxSeen
  <2> SUFFICES ASSUME NEW h \in Heights, directives[h] # None
               PROVE  h <= maxSeen
    OBVIOUS
  <2>1. [height |-> h, says |-> directives[h]] \in heard
    BY DEF IInv, LogHeard
  <2> QED
    BY <1>3, <2>1
<1>5. \/ KeepRecorded(d) \/ OverrideBySkip(d) \/ IgnoreBelowHorizon(d)
      \/ RecordLower(d) \/ RecordHighest(d)
  BY DEF HandleDirective
<1> HIDE DEF d
<1>6. /\ standing' \in [Heights -> Resolutions \cup {None}]
      /\ standing'[d.height] = Stands(standing[d.height], d.says)
      /\ \A h \in Heights : h # d.height => standing'[h] = standing[h]
  <2>1. Stands(standing[d.height], d.says) \in Resolutions \cup {None}
    BY <1>2 DEF Stands
  <2> QED
    BY <1>1, <1>2, <2>1
<1> DEFINE Goal ==
        /\ \A h \in Heights :
              h >= floorAsked /\ h >= maxSeen' - PruneSlack => directives'[h] = standing'[h]
        /\ \A h \in Heights : h < maxSeen' - PruneSlack => directives'[h] = None
        /\ maxSeen <= maxSeen' /\ d.height <= maxSeen' /\ maxSeen' \in Int
<1>7. ASSUME KeepRecorded(d)
      PROVE  Goal
  <2>1. UNCHANGED <<directives, maxSeen>> /\ directives[d.height] # None
        /\ ~(directives[d.height] \in Tasks /\ d.says = Skip)
    BY <1>7 DEF KeepRecorded
  <2>2. standing[d.height] = directives[d.height] => standing'[d.height] = standing[d.height]
    BY <1>2, <1>6, <2>1 DEF Stands, Resolutions
  <2>3. maxSeen <= maxSeen /\ d.height <= maxSeen
    BY <1>2, <1>4, <2>1
  <2> QED
    BY <1>2, <1>3, <1>6, <2>1, <2>2, <2>3
<1>8. ASSUME OverrideBySkip(d)
      PROVE  Goal
  <2>1. /\ maxSeen' = maxSeen /\ directives[d.height] \in Tasks /\ d.says = Skip
        /\ directives' = [directives EXCEPT ![d.height] = Skip]
    BY <1>8 DEF OverrideBySkip
  <2>2. standing[d.height] = directives[d.height] => standing'[d.height] = Skip
    BY <1>2, <1>6, <2>1 DEF Stands
  <2>3. maxSeen <= maxSeen /\ d.height <= maxSeen /\ directives[d.height] # None
    BY <1>2, <1>4, <2>1
  <2>4. /\ directives'[d.height] = Skip
        /\ \A h \in Heights : h # d.height => directives'[h] = directives[h]
    BY <1>2, <2>1
  <2> QED
    BY <1>2, <1>3, <1>6, <2>1, <2>2, <2>3, <2>4
<1>9. ASSUME IgnoreBelowHorizon(d)
      PROVE  Goal
  <2>1. UNCHANGED <<directives, maxSeen>>
        /\ d.height < maxSeen - PruneSlack
    BY <1>2, <1>9 DEF IgnoreBelowHorizon, BelowHorizon, SaturatingSub
  <2>2. /\ maxSeen <= maxSeen /\ d.height <= maxSeen
        /\ ~(d.height >= maxSeen - PruneSlack)
    BY <1>2, <2>1
  <2> QED
    BY <1>2, <1>3, <1>6, <2>1, <2>2
<1>10. ASSUME RecordLower(d)
      PROVE  Goal
  <2>1. /\ maxSeen' = maxSeen /\ directives[d.height] = None
        /\ d.height <= maxSeen /\ ~(d.height < maxSeen - PruneSlack)
        /\ directives' = [directives EXCEPT ![d.height] = d.says]
        /\ maxSeen <= maxSeen
    BY <1>2, <1>10 DEF RecordLower, BelowHorizon, SaturatingSub
  <2>2. standing[d.height] = None => standing'[d.height] = d.says
    BY <1>2, <1>6 DEF Stands, Resolutions
  <2>3. /\ directives'[d.height] = d.says
        /\ \A h \in Heights : h # d.height => directives'[h] = directives[h]
    BY <1>2, <2>1
  <2> QED
    BY <1>2, <1>3, <1>6, <2>1, <2>2, <2>3
<1>11. ASSUME RecordHighest(d)
      PROVE  Goal
  <2>1. /\ maxSeen' = d.height /\ directives[d.height] = None /\ d.height > maxSeen
        /\ directives' = KeptFrom([directives EXCEPT ![d.height] = d.says],
                                  SaturatingSub(d.height, PruneSlack))
    BY <1>2, <1>11 DEF RecordHighest
  <2>2. standing[d.height] = None => standing'[d.height] = d.says
    BY <1>2, <1>6 DEF Stands, Resolutions
  <2>3. \A h \in Heights :
           IF h < d.height - PruneSlack THEN directives'[h] = None
           ELSE directives'[h] = IF h = d.height THEN d.says ELSE directives[h]
    BY <1>2, <2>1 DEF KeptFrom, SaturatingSub, Heights
  <2>4. \A h \in Heights : h >= d.height - PruneSlack =>
            h >= maxSeen - PruneSlack /\ ~(h < d.height - PruneSlack)
    BY <1>2, <2>1 DEF Heights
  <2>5. maxSeen <= maxSeen' /\ d.height <= maxSeen' /\ maxSeen' \in Int
    BY <1>2, <2>1
  <2>6. ASSUME NEW h \in Heights, h >= floorAsked, h >= maxSeen' - PruneSlack
        PROVE  directives'[h] = standing'[h]
    <3>1. h >= maxSeen - PruneSlack /\ ~(h < d.height - PruneSlack)
      BY <2>1, <2>4, <2>6
    <3>2. directives[h] = standing[h]
      BY <1>3, <2>6, <3>1
    <3>3. directives'[h] = IF h = d.height THEN d.says ELSE directives[h]
      BY <2>3, <3>1
    <3> QED
      BY <1>6, <2>1, <2>2, <3>2, <3>3
  <2>7. \A h \in Heights : h < maxSeen' - PruneSlack => directives'[h] = None
    BY <2>1, <2>3
  <2> QED
    BY <2>5, <2>6, <2>7
<1>12. Goal
  BY <1>5, <1>7, <1>8, <1>9, <1>10, <1>11
<1>13. \A e \in heard' : e.height <= maxSeen'
  <2>1. \A e \in heard : e.height \in Int
    BY <1>2 DEF Directives, Heights
  <2> QED
    BY <1>1, <1>2, <1>3, <1>12, <2>1
<1>14. StandingOK'
  BY <1>1, <1>12, <1>13 DEF StandingOK, Live
<1> QED
  BY <1>6, <1>14

\* Every branch of handle_directive keeps the invariant.
LEMMA HandleDirectiveInv ==
    ASSUME IInv, HandleDirective
    PROVE  IInv'
<1> DEFINE d == Head(mailbox).directive
<1>1. /\ Receive("directive") /\ d \in Directives
      /\ heard' = heard \cup {d}
      /\ waiters' \subseteq waiters
      /\ answer' \in [Requests -> Resolutions \cup {None}]
      /\ \A r \in Requests : r \notin waiters \ waiters' => answer'[r] = answer[r]
      /\ \A r \in waiters \ waiters' : answer'[r] \in Resolutions
  BY DirectiveAnswers
<1>2. UNCHANGED <<asked, floorAsked>> /\ mailbox' \in Seq(Messages)
  BY <1>1, ReceiveFacts
<1>3. /\ directives' \in [Heights -> Resolutions \cup {None}]
      /\ maxSeen' \in Heights \cup {-1} /\ maxSeen' >= maxSeen
      /\ maxSeen' \in {maxSeen, d.height}
      /\ \A h \in Heights :
           \/ directives'[h] = directives[h]
           \/ directives[h] \in Tasks /\ directives'[h] = Skip
              /\ d.height = h /\ d.says = Skip
           \/ directives'[h] = None /\ h < maxSeen' - PruneSlack
           \/ directives[h] = None /\ d.height = h /\ directives'[h] = d.says
      /\ \A r \in waiters' : directives'[asked[r]] = None /\ asked[r] >= maxSeen'
      /\ \A r \in waiters \ waiters' :
           answer'[r] \in Tasks =>
               /\ directives[asked[r]] = None
               /\ answer'[r] = d.says /\ asked[r] = d.height
               /\ directives'[asked[r]] \in {d.says, None}
               /\ asked[r] >= maxSeen' - PruneSlack => directives'[asked[r]] = d.says
  BY DirectiveLog
<1> HIDE DEF d
<1>4. /\ d \in heard' /\ d = [height |-> d.height, says |-> d.says]
      /\ d.height \in Heights /\ d.says \in Resolutions
  BY <1>1 DEF Directives
<1>5. QueueOK' /\ RequestsOK' /\ NoRequestLost'
  BY <1>1, AnswersParkedOnly
<1>6. TypeOK' /\ StandingOK'
  BY <1>1, <1>2, <1>3, DirectiveStands DEF IInv, TypeOK
<1>7. LogHeard'
  <2>1. \A h \in Heights : directives'[h] # None =>
            [height |-> h, says |-> directives'[h]] \in heard'
    <3> TAKE h \in Heights
    <3>1. CASE directives'[h] = directives[h]
      BY <1>1, <3>1 DEF IInv, LogHeard
    <3>2. CASE directives'[h] = d.says /\ d.height = h
      BY <1>4, <3>2
    <3>3. CASE directives'[h] = None
      BY <3>3
    <3> QED
      BY <1>3, <3>1, <3>2, <3>3
  <2>2. maxSeen' # -1 => \E e \in heard' : e.height = maxSeen'
    BY <1>1, <1>3, <1>4 DEF IInv, LogHeard
  <2> QED
    BY <2>1, <2>2 DEF LogHeard
<1>8. ParkedUndecided'
  BY <1>2, <1>3 DEF ParkedUndecided
<1>9. /\ maxSeen \in Heights \cup {-1} /\ floorAsked \in Heights
      /\ asked \in [Requests -> Heights \cup {None}]
      /\ PruneSlack \in Nat /\ Skip \notin Tasks
      /\ None \notin Tasks /\ None \notin Heights
  BY TaskBookAssumption DEF IInv, TypeOK, Resolutions
<1> DEFINE LiveNext(h) == h >= floorAsked /\ h >= maxSeen' - PruneSlack
<1>10. \A h \in Heights :
         LiveNext(h) => Live(h) /\ h >= maxSeen' - PruneSlack /\ ~(h < maxSeen' - PruneSlack)
  <2>1. Heights \cup {-1} \subseteq Int
    BY TaskBookAssumption DEF Heights
  <2>2. maxSeen \in Int /\ maxSeen' \in Int /\ maxSeen' >= maxSeen
    BY <1>3, <1>9, <2>1
  <2>3. floorAsked \in Int /\ \A h \in Heights : h \in Int
    BY <1>9, <2>1
  <2>4. PruneSlack \in Int
    BY <1>9
  <2>5. ASSUME NEW h \in Int, h >= maxSeen' - PruneSlack
        PROVE  h >= maxSeen - PruneSlack /\ ~(h < maxSeen' - PruneSlack)
    BY <2>2, <2>4, <2>5, SlackShift
  <2> QED
    BY <2>3, <2>5 DEF Live, LiveNext
<1> HIDE DEF LiveNext
<1>11. HandedOutStays'
  <2> SUFFICES ASSUME NEW r \in Requests, asked[r] # None, answer'[r] \in Tasks,
                      LiveNext(asked[r])
               PROVE  directives'[asked[r]] \in {answer'[r], Skip}
    BY <1>2 DEF HandedOutStays, Live, LiveNext
  <2>1. asked[r] \in Heights
    BY <1>9
  <2>2. CASE r \in waiters \ waiters'
    BY <1>3, <1>10, <2>1, <2>2
  <2>3. CASE r \notin waiters \ waiters'
    <3>1. answer'[r] = answer[r] /\ Live(asked[r])
      BY <1>1, <1>10, <2>1, <2>3
    <3>2. directives[asked[r]] \in {answer[r], Skip}
      BY <3>1 DEF IInv, HandedOutStays
    <3>3. directives[asked[r]] # None
      BY <1>9, <3>1, <3>2, TaskBookAssumption DEF Resolutions
    <3> QED
      BY <1>3, <1>10, <2>1, <3>1, <3>2, <3>3
  <2> QED
    BY <2>2, <2>3
<1>12. FirstAnnouncementWins'
  <2> SUFFICES ASSUME NEW r \in Requests, NEW q \in Requests,
                      asked[r] = asked[q], asked[r] # None, LiveNext(asked[r]),
                      answer'[r] \in Tasks, answer'[q] \in Tasks
               PROVE  answer'[r] = answer'[q]
    BY <1>2 DEF FirstAnnouncementWins, Live, LiveNext
  <2>1. asked[r] \in Heights /\ Live(asked[r])
    BY <1>9, <1>10
  <2>2. ASSUME NEW x \in Requests, asked[x] = asked[r], answer[x] \in Tasks
        PROVE  directives[asked[r]] # None
    BY <1>9, <2>1, <2>2, TaskBookAssumption DEF IInv, HandedOutStays, Resolutions
  <2>3. CASE r \in waiters \ waiters'
    BY <1>1, <1>3, <2>2, <2>3
  <2>4. CASE q \in waiters \ waiters'
    BY <1>1, <1>3, <2>2, <2>4
  <2>5. CASE r \notin waiters \ waiters' /\ q \notin waiters \ waiters'
    BY <1>1, <2>1, <2>5 DEF IInv, FirstAnnouncementWins
  <2> QED
    BY <2>3, <2>4, <2>5
<1> QED
  BY <1>5, <1>6, <1>7, <1>8, <1>11, <1>12 DEF IInv

\* A request taken from the queue is answered from the log, or passed over when
\* the log has nothing, or parked.
LEMMA SubscribeAnswers ==
    ASSUME IInv, HandleSubscribe
    PROVE  LET r == Head(mailbox).request
           IN  /\ Receive("subscribe")
               /\ r \in Requests /\ asked[r] \in Heights
               /\ answer[r] = None /\ r \notin waiters
               /\ Head(mailbox) = [type |-> "subscribe", request |-> r]
               /\ \/ /\ waiters' = waiters \cup {r} /\ answer' = answer
                     /\ directives[asked[r]] = None /\ asked[r] >= maxSeen
                  \/ /\ waiters' = waiters
                     /\ answer' = [answer EXCEPT ![r] = answer'[r]]
                     /\ answer'[r] \in Resolutions
                     /\ \/ answer'[r] = directives[asked[r]]
                        \/ /\ directives[asked[r]] = None
                           /\ answer'[r] = Skip /\ asked[r] < maxSeen
<1> DEFINE r == Head(mailbox).request
<1>1. Receive("subscribe")
  BY DEF HandleSubscribe
<1>2. /\ Head(mailbox) \in Messages /\ Head(mailbox).type = "subscribe"
      /\ Head(mailbox) = mailbox[1] /\ 1 \in 1 .. Len(mailbox)
  BY <1>1, ReceiveFacts
<1>3. r \in Requests /\ Head(mailbox) = [type |-> "subscribe", request |-> r]
  BY <1>2, MessageFields
<1>4. asked[r] # None /\ answer[r] = None /\ r \notin waiters
  BY <1>2 DEF IInv, QueueOK
<1>5. /\ asked[r] \in Heights
      /\ directives \in [Heights -> Resolutions \cup {None}]
      /\ answer \in [Requests -> Resolutions \cup {None}]
      /\ maxSeen \in Heights \cup {-1}
      /\ Skip \in Resolutions
  BY <1>3, <1>4 DEF IInv, TypeOK, Resolutions
<1>6. AnswerRecorded(r) \/ AnswerPassedOver(r) \/ Park(r)
  BY DEF HandleSubscribe
<1> HIDE DEF r
<1>7. CASE AnswerRecorded(r)
  <2>1. answer' = [answer EXCEPT ![r] = directives[asked[r]]] /\ waiters' = waiters
    BY <1>3, <1>5, <1>7 DEF AnswerRecorded, Resolve
  <2>2. directives[asked[r]] \in Resolutions
    BY <1>5, <1>7 DEF AnswerRecorded
  <2> QED
    BY <1>1, <1>3, <1>4, <1>5, <2>1, <2>2 DEF r
<1>8. CASE AnswerPassedOver(r)
  <2>1. directives[asked[r]] = None /\ asked[r] < maxSeen
    BY <1>8 DEF AnswerPassedOver
  <2>2. answer' = [answer EXCEPT ![r] = Skip] /\ waiters' = waiters
    BY <1>3, <1>5, <1>8 DEF AnswerPassedOver, Resolve
  <2> QED
    BY <1>1, <1>3, <1>4, <1>5, <2>1, <2>2 DEF r
<1>9. CASE Park(r)
  <2>1. /\ waiters' = waiters \cup {r} /\ answer' = answer
        /\ directives[asked[r]] = None /\ asked[r] >= maxSeen
    BY <1>5, <1>9 DEF Park, Heights
  <2> QED
    BY <1>1, <1>3, <1>4, <1>5, <2>1 DEF r
<1> QED
  BY <1>6, <1>7, <1>8, <1>9

\* Every branch of handle_subscribe keeps the invariant.
LEMMA HandleSubscribeInv ==
    ASSUME IInv, HandleSubscribe
    PROVE  IInv'
<1>0. PICK r \in Requests : r = Head(mailbox).request
  BY SubscribeAnswers
<1>1. /\ Receive("subscribe") /\ r \in Requests /\ asked[r] \in Heights
      /\ answer[r] = None /\ r \notin waiters
      /\ Head(mailbox) = [type |-> "subscribe", request |-> r]
      /\ \/ /\ waiters' = waiters \cup {r} /\ answer' = answer
            /\ directives[asked[r]] = None /\ asked[r] >= maxSeen
         \/ /\ waiters' = waiters
            /\ answer' = [answer EXCEPT ![r] = answer'[r]]
            /\ answer'[r] \in Resolutions
            /\ answer'[r] \in {directives[asked[r]], Skip}
  BY <1>0, SubscribeAnswers
<1>2. UNCHANGED <<directives, maxSeen, heard, standing>>
  BY DEF HandleSubscribe
<1>3. /\ mailbox' \in Seq(Messages)
      /\ Len(mailbox) \in Nat /\ Len(mailbox) >= 1
      /\ Head(mailbox) = mailbox[1]
      /\ Len(mailbox') = Len(mailbox) - 1
      /\ \A i \in 1 .. Len(mailbox') :
            mailbox'[i] = mailbox[i + 1] /\ mailbox'[i] \in Messages
      /\ UNCHANGED <<asked, floorAsked>>
  BY <1>1, ReceiveFacts
<1>4. /\ answer' \in [Requests -> Resolutions \cup {None}]
      /\ \A q \in Requests : q # r => answer'[q] = answer[q]
      /\ waiters' \subseteq waiters \cup {r} /\ waiters \subseteq waiters'
      /\ waiters \subseteq Requests
      /\ answer'[r] # None => answer'[r] \in {directives[asked[r]], Skip}
      /\ r \in waiters' => answer'[r] = None
      /\ r \in waiters' \/ answer'[r] # None
  BY <1>1, TaskBookAssumption DEF IInv, TypeOK
<1>5. TypeOK' /\ StandingOK' /\ LogHeard' /\ ParkedUndecided'
  BY <1>1, <1>2, <1>3, <1>4
  DEF IInv, TypeOK, StandingOK, Live, LogHeard, ParkedUndecided
<1>6. asked[r] # None
  BY <1>1, TaskBookAssumption
<1>7. RequestsOK'
  BY <1>1, <1>3, <1>4, <1>6 DEF IInv, RequestsOK
<1>8. \A i \in 1 .. Len(mailbox') :
         mailbox'[i].type = "subscribe" =>
             mailbox'[i].request \in Requests /\ mailbox'[i].request # r
  <2> SUFFICES ASSUME NEW i \in 1 .. Len(mailbox'), mailbox'[i].type = "subscribe"
               PROVE  mailbox'[i].request \in Requests /\ mailbox'[i].request # r
    OBVIOUS
  <2>1. /\ mailbox'[i] = mailbox[i + 1] /\ mailbox'[i] \in Messages
        /\ i + 1 \in 1 .. Len(mailbox) /\ 1 \in 1 .. Len(mailbox) /\ i + 1 # 1
    BY <1>3
  <2>2. mailbox'[i].request \in Requests
        /\ mailbox'[i] = [type |-> "subscribe", request |-> mailbox'[i].request]
    BY <2>1, MessageFields
  <2>3. mailbox[1].type = "subscribe"
    BY <1>1, <1>3
  <2>4. mailbox[i + 1] # mailbox[1]
    BY <2>1, <2>3 DEF IInv, QueueOK
  <2> QED
    BY <1>1, <1>3, <2>1, <2>2, <2>4
<1>9. QueueOK'
  <2>1. \A i \in 1 .. Len(mailbox') : i + 1 \in 1 .. Len(mailbox)
    BY <1>3
  <2>2. ASSUME NEW i \in 1 .. Len(mailbox'), mailbox'[i].type = "subscribe"
        PROVE  LET q == mailbox'[i].request
               IN  asked'[q] # None /\ answer'[q] = None /\ q \notin waiters'
    <3> DEFINE q == mailbox[i + 1].request
    <3>1. mailbox'[i] = mailbox[i + 1] /\ mailbox[i + 1].type = "subscribe"
      BY <1>3, <2>2
    <3>2. asked[q] # None /\ answer[q] = None /\ q \notin waiters
      BY <2>1, <3>1 DEF IInv, QueueOK
    <3>3. q \in Requests /\ q # r
      BY <1>8, <2>2, <3>1
    <3> QED
      BY <1>3, <1>4, <3>1, <3>2, <3>3
  <2>3. ASSUME NEW i \in 1 .. Len(mailbox'), NEW j \in 1 .. Len(mailbox'),
               mailbox'[i].type = "subscribe", mailbox'[i] = mailbox'[j]
        PROVE  i = j
    <3>1. i + 1 = j + 1
      BY <1>3, <2>1, <2>3 DEF IInv, QueueOK
    <3> QED
      BY <1>3, <3>1
  <2>4. \A i \in 1 .. Len(mailbox') :
          mailbox'[i].type = "prune" => mailbox'[i].floor <= floorAsked'
    BY <1>3, <2>1 DEF IInv, QueueOK
  <2> QED
    BY <2>2, <2>3, <2>4 DEF QueueOK
<1>10. ~Queued(r)' /\ \A q \in Requests : q # r => (Queued(q)' <=> Queued(q))
  <2>1. ~Queued(r)'
    <3>1. [type |-> "subscribe", request |-> r].type = "subscribe"
          /\ [type |-> "subscribe", request |-> r].request = r
      OBVIOUS
    <3>2. ASSUME NEW i \in 1 .. Len(mailbox'),
                 mailbox'[i] = [type |-> "subscribe", request |-> r]
          PROVE  FALSE
      BY <1>8, <3>1, <3>2
    <3> QED
      BY <3>2 DEF Queued
  <2>2. ASSUME NEW q \in Requests, q # r
        PROVE  Queued(q)' <=> Queued(q)
    <3> DEFINE mq == [type |-> "subscribe", request |-> q]
    <3>1. mailbox[1] # mq
      BY <1>1, <1>3, <2>2
    <3>2. Queued(q) <=> \E i \in 1 .. Len(mailbox) : mailbox[i] = mq
      BY DEF Queued
    <3>3. Queued(q)' <=> \E i \in 1 .. Len(mailbox') : mailbox'[i] = mq
      BY DEF Queued
    <3> HIDE DEF mq
    <3>4. ASSUME NEW i \in 1 .. Len(mailbox), mailbox[i] = mq
          PROVE  \E j \in 1 .. Len(mailbox') : mailbox'[j] = mq
      <4>1. i - 1 \in 1 .. Len(mailbox') /\ (i - 1) + 1 = i
        BY <1>3, <3>1, <3>4
      <4>2. mailbox'[i - 1] = mq
        BY <1>3, <3>4, <4>1
      <4> QED
        BY <4>1, <4>2
    <3>5. \A j \in 1 .. Len(mailbox') : j + 1 \in 1 .. Len(mailbox)
                                         /\ mailbox'[j] = mailbox[j + 1]
      BY <1>3
    <3> QED
      BY <3>2, <3>3, <3>4, <3>5
  <2> QED
    BY <2>1, <2>2
<1>11. NoRequestLost'
  BY <1>1, <1>3, <1>4, <1>6, <1>10 DEF IInv, NoRequestLost
<1>12. HandedOutStays'
  <2> SUFFICES ASSUME NEW p \in Requests, asked[p] # None, answer'[p] \in Tasks,
                      Live(asked[p])
               PROVE  directives[asked[p]] \in {answer'[p], Skip}
    <3>1. HandedOutStays' <=>
            \A p \in Requests :
              (asked'[p] # None /\ answer'[p] \in Tasks
                 /\ asked'[p] >= floorAsked' /\ asked'[p] >= maxSeen' - PruneSlack) =>
                directives'[asked'[p]] \in {answer'[p], Skip}
      BY DEF HandedOutStays, Live
    <3> QED
      BY <1>2, <1>3, <3>1 DEF Live
  <2>1. CASE p = r
    BY <1>4, <2>1, TaskBookAssumption DEF Resolutions
  <2>2. CASE p # r
    BY <1>4, <2>2 DEF IInv, HandedOutStays
  <2> QED
    BY <2>1, <2>2
<1>13. FirstAnnouncementWins'
  <2> SUFFICES ASSUME NEW p \in Requests, NEW q \in Requests,
                      asked[p] = asked[q], asked[p] # None, Live(asked[p]),
                      answer'[p] \in Tasks, answer'[q] \in Tasks
               PROVE  answer'[p] = answer'[q]
    <3>1. FirstAnnouncementWins' <=>
            \A p, q \in Requests :
              (/\ asked'[p] = asked'[q] /\ asked'[p] # None
               /\ asked'[p] >= floorAsked' /\ asked'[p] >= maxSeen' - PruneSlack
               /\ {answer'[p], answer'[q]} \subseteq Tasks) => answer'[p] = answer'[q]
      BY DEF FirstAnnouncementWins, Live
    <3> QED
      BY <1>2, <1>3, <3>1 DEF Live
  <2>1. Skip \notin Tasks /\ None \notin Tasks
    BY TaskBookAssumption DEF Resolutions
  <2>2. ASSUME NEW x \in Requests, asked[x] = asked[p], answer'[x] \in Tasks
        PROVE  directives[asked[p]] \in {answer'[x], Skip}
    <3>1. CASE x = r
      BY <1>4, <2>1, <2>2, <3>1
    <3>2. CASE x # r
      BY <1>4, <2>2, <3>2 DEF IInv, HandedOutStays
    <3> QED
      BY <3>1, <3>2
  <2>3. CASE p # r /\ q # r
    BY <1>4, <2>3 DEF IInv, FirstAnnouncementWins
  <2>4. CASE p = r \/ q = r
    <3>1. directives[asked[p]] # Skip
      BY <1>4, <2>1, <2>4
    <3> QED
      BY <2>2, <3>1
  <2> QED
    BY <2>3, <2>4
<1> QED
  BY <1>5, <1>7, <1>9, <1>11, <1>12, <1>13 DEF IInv

\* Every step keeps the invariant.
LEMMA NextInv == IInv /\ [Next]_vars => IInv'
<1> SUFFICES ASSUME IInv, [Next]_vars
             PROVE  IInv'
  OBVIOUS
<1>1. CASE \E d \in Directives : Deliver(d)
  BY <1>1, DeliverInv
<1>2. CASE \E r \in Requests, h \in Heights : Subscribe(r, h)
  BY <1>2, SubscribeInv
<1>3. CASE \E floor \in Heights : PruneBelow(floor)
  BY <1>3, PruneBelowInv
<1>4. CASE HandleDirective
  BY <1>4, HandleDirectiveInv
<1>5. CASE HandleSubscribe
  BY <1>5, HandleSubscribeInv
<1>6. CASE HandlePrune
  BY <1>6, HandlePruneInv
<1>7. CASE UNCHANGED vars
  BY <1>7
  DEF vars, IInv, TypeOK, StandingOK, LogHeard, QueueOK, RequestsOK, ParkedUndecided,
      HandedOutStays, FirstAnnouncementWins, NoRequestLost, Queued, Live
<1> QED
  BY <1>1, <1>2, <1>3, <1>4, <1>5, <1>6, <1>7 DEF Next, Handle

-----------------------------------------------------------------------------
(* The theorems.                                                           *)

\* The inductive invariant holds in every reachable state.
THEOREM Invariance == Spec => []IInv
  BY InitInv, NextInv, PTL DEF Spec

\* Every variable keeps its type.
THEOREM TypeCorrect == Spec => []TypeOK
<1>1. IInv => TypeOK
  BY DEF IInv
<1> QED
  BY <1>1, Invariance, PTL

\* No digest request of the engine is lost or answered twice, whatever the
\* router sends and however the three senders interleave (task_book.rs:88).
THEOREM RequestsKept == Spec => []NoRequestLost
<1>1. IInv => NoRequestLost
  BY DEF IInv
<1> QED
  BY <1>1, Invariance, PTL

\* The actor parks only what is undecided: no directive is recorded for the
\* height and none has been heard above it (task_book.rs:266-286).
THEOREM ParkedAreUndecided == Spec => []ParkedUndecided
<1>1. IInv => ParkedUndecided
  BY DEF IInv
<1> QED
  BY <1>1, Invariance, PTL

\* Conflicting announcements never hand two tasks to two requests of a live
\* height (task_book.rs:198-221).
THEOREM OneTaskPerHeight == Spec => []FirstAnnouncementWins
<1>1. IInv => FirstAnnouncementWins
  BY DEF IInv
<1> QED
  BY <1>1, Invariance, PTL

-----------------------------------------------------------------------------
(* Refinement of the skip rules.                                           *)

\* Initial states map to initial states of the skip rules.
LEMMA InitRefines == Init => Rules!Init
  BY DEF Init, Rules!Init, Rules!Heights, Heights

\* An answer given to a parked request is permitted by what stands after the
\* directive that releases it.
LEMMA DirectivePermitted ==
    ASSUME IInv, IInv', HandleDirective, NEW r \in waiters \ waiters'
    PROVE  Rules!Permitted(heard', standing'[asked[r]], asked[r], answer'[r])
<1> DEFINE d == Head(mailbox).directive
           h == asked[r]
<1>1. /\ d \in Directives /\ d \in heard' /\ UNCHANGED floorAsked
      /\ standing' = [standing EXCEPT ![d.height] = Stands(@, d.says)]
      /\ \/ answer'[r] = d.says /\ h = d.height
         \/ answer'[r] = Skip /\ h < d.height
  BY DirectiveAnswers, ReceiveFacts DEF HandleDirective
<1>2. /\ h \in Heights /\ directives[h] = None /\ h >= maxSeen
      /\ standing \in [Heights -> Resolutions \cup {None}]
      /\ maxSeen \in Int /\ floorAsked \in Int /\ PruneSlack \in Nat
      /\ h \in Int
      /\ None \notin Resolutions /\ None \notin Tasks /\ None # Skip
  BY TaskBookAssumption
  DEF IInv, TypeOK, RequestsOK, ParkedUndecided, Resolutions, Heights
<1>3. d.height \in Heights /\ d.says \in Resolutions /\ d.height \in Int
      /\ d = [height |-> d.height, says |-> d.says]
  BY <1>1 DEF Directives, Heights
<1>4. h >= floorAsked => standing[h] = None
  <2>1. h >= maxSeen - PruneSlack
    BY <1>2
  <2> QED
    BY <1>2, <2>1 DEF IInv, StandingOK, Live
<1>5. maxSeen' \in {maxSeen, d.height}
  BY DirectiveLog
<1>6. \A e \in heard' : e.height \in Int /\ e.height <= maxSeen'
  BY DEF IInv, TypeOK, StandingOK, Directives, Heights
<1> HIDE DEF d, h
<1>7. CASE answer'[r] = d.says /\ h = d.height
  <2>1. maxSeen' \in Int /\ h >= maxSeen'
    BY <1>2, <1>5, <1>7
  <2>2. ~Rules!FarBelow(heard', h)
    BY <1>2, <1>6, <2>1 DEF Rules!FarBelow
  <2>3. h >= floorAsked => standing'[h] = d.says
    BY <1>1, <1>2, <1>4, <1>7 DEF Stands
  <2>4. Rules!Answerable(heard', h, d.says)
    BY <1>1, <1>3, <1>7 DEF Rules!Answerable
  <2>5. h >= floorAsked \/ h < floorAsked
    BY <1>2
  <2> QED
    BY <1>2, <1>3, <1>7, <2>2, <2>3, <2>4, <2>5 DEF Rules!Permitted, h
<1>8. CASE answer'[r] = Skip /\ h < d.height
  <2>1. h >= floorAsked => standing'[h] = None
    BY <1>1, <1>2, <1>3, <1>4, <1>8
  <2>2. \E e \in heard' : e.height > h
    BY <1>1, <1>2, <1>3, <1>8
  <2>3. Rules!Answerable(heard', h, Skip)
    BY <2>2 DEF Rules!Answerable
  <2>4. h >= floorAsked \/ h < floorAsked
    BY <1>2
  <2> QED
    BY <1>8, <2>1, <2>2, <2>3, <2>4 DEF Rules!Permitted, h
<1> QED
  BY <1>1, <1>7, <1>8

\* A late request gets what stands at its height, and Skip by rule 2 only
\* while nothing does.
LEMMA SubscribePermitted ==
    ASSUME IInv, NEW r \in Requests, asked[r] \in Heights, answer'[r] \in Resolutions,
           \/ answer'[r] = directives[asked[r]]
           \/ /\ directives[asked[r]] = None
              /\ answer'[r] = Skip /\ asked[r] < maxSeen
    PROVE  Rules!Permitted(heard, standing[asked[r]], asked[r], answer'[r])
<1> DEFINE h == asked[r]
<1>1. /\ h \in Heights /\ h \in Nat
      /\ maxSeen \in Int /\ floorAsked \in Int /\ PruneSlack \in Nat
      /\ None \notin Resolutions
  BY TaskBookAssumption DEF IInv, TypeOK, Heights
<1>2. \A e \in heard : e.height \in Int /\ e.height <= maxSeen
  BY DEF IInv, TypeOK, StandingOK, Directives, Heights
<1>3. h >= floorAsked /\ h >= maxSeen - PruneSlack => directives[h] = standing[h]
  BY <1>1 DEF IInv, StandingOK, Live
<1>4. h >= floorAsked \/ h < floorAsked
  BY <1>1
<1>5. CASE answer'[r] = directives[h]
  <2>1. directives[h] # None
    BY <1>1, <1>5
  <2>2. ~(h < maxSeen - PruneSlack)
    BY <1>1, <2>1 DEF IInv, StandingOK
  <2>3. h >= maxSeen - PruneSlack
    BY <1>1, <2>2
  <2>4. ~Rules!FarBelow(heard, h)
    BY <1>1, <1>2, <2>3 DEF Rules!FarBelow
  <2>5. Rules!Answerable(heard, h, directives[h])
    BY <1>1, <2>1 DEF IInv, LogHeard, Rules!Answerable
  <2> HIDE DEF h
  <2> QED
    BY <1>3, <1>4, <1>5, <2>1, <2>3, <2>4, <2>5 DEF Rules!Permitted, h
<1>6. CASE directives[h] = None /\ answer'[r] = Skip /\ h < maxSeen
  <2>1. PICK e \in heard : e.height = maxSeen
    <3>1. maxSeen # -1
      BY <1>1, <1>6
    <3> QED
      BY <3>1 DEF IInv, LogHeard
  <2>2. e.height > h
    BY <1>1, <1>6, <2>1
  <2>3. Rules!Answerable(heard, h, Skip)
    BY <2>2 DEF Rules!Answerable
  <2>4. ~Rules!FarBelow(heard, h) => h >= maxSeen - PruneSlack
    BY <1>1, <2>1 DEF Rules!FarBelow
  <2> HIDE DEF h
  <2> QED
    BY <1>3, <1>4, <1>6, <2>2, <2>3, <2>4 DEF Rules!Permitted, h
<1> QED
  BY <1>5, <1>6

\* Every step maps to a step of the skip rules, or to a stutter.
LEMMA StepRefines == IInv /\ IInv' /\ [Next]_vars => [Rules!Next]_(Rules!vars)
<1> SUFFICES ASSUME IInv, IInv', [Next]_vars
             PROVE  [Rules!Next]_(Rules!vars)
  OBVIOUS
<1> USE DEF Rules!vars, Rules!Heights, Rules!Resolutions, Rules!Directives
<1>1. CASE \E d \in Directives : Deliver(d)
  BY <1>1 DEF Deliver, Enqueue, actorVars
<1>2. CASE \E r \in Requests, h \in Heights : Subscribe(r, h)
  <2>1. PICK r \in Requests, h \in Heights : Subscribe(r, h)
    BY <1>2
  <2>2. Rules!Ask(r, h)
    BY <2>1 DEF Subscribe, Enqueue, actorVars, Rules!Ask
  <2> QED
    BY <2>2 DEF Rules!Next, Heights
<1>3. CASE \E floor \in Heights : PruneBelow(floor)
  <2>1. PICK floor \in Heights : PruneBelow(floor)
    BY <1>3
  <2>2. Rules!LetGo(floor)
    BY <2>1 DEF PruneBelow, Enqueue, actorVars, Rules!LetGo
  <2> QED
    BY <2>2 DEF Rules!Next, Heights
<1>4. CASE HandleDirective
  <2> DEFINE d == Head(mailbox).directive
  <2>1. /\ d \in Directives /\ heard' = heard \cup {d}
        /\ waiters' \subseteq waiters
        /\ answer' \in [Requests -> Resolutions \cup {None}]
        /\ \A r \in Requests : r \notin waiters \ waiters' => answer'[r] = answer[r]
        /\ \A r \in waiters \ waiters' :
             /\ answer'[r] \in Resolutions
             /\ Rules!Permitted(heard', standing'[asked[r]], asked[r], answer'[r])
        /\ Receive("directive")
        /\ standing' = [standing EXCEPT ![d.height] = Stands(@, d.says)]
    BY <1>4, DirectiveAnswers, DirectivePermitted DEF HandleDirective
  <2>2. \A r \in waiters : asked[r] # None /\ answer[r] = None
    BY DEF IInv, RequestsOK
  <2>3. Rules!AnswersPermitted
    BY <2>1, <2>2 DEF Rules!AnswersPermitted, Resolutions
  <2>4. Rules!Hear(d)
    BY <2>1, <2>3 DEF Rules!Hear, Rules!Stands, Stands, Receive, Resolutions
  <2> HIDE DEF d
  <2> QED
    BY <2>1, <2>4 DEF Rules!Next, Directives, Heights, Resolutions
<1>5. CASE HandleSubscribe
  <2>1. PICK r \in Requests : r = Head(mailbox).request
    BY <1>5, SubscribeAnswers
  <2>2. /\ asked[r] \in Heights /\ answer[r] = None
        /\ \/ answer' = answer
           \/ /\ answer' = [answer EXCEPT ![r] = answer'[r]]
              /\ answer'[r] \in Resolutions
              /\ Rules!Permitted(heard, standing[asked[r]], asked[r], answer'[r])
        /\ UNCHANGED <<asked, heard, standing, floorAsked>>
    BY <1>5, <2>1, SubscribeAnswers, SubscribePermitted, ReceiveFacts
    DEF HandleSubscribe
  <2>3. asked[r] # None
    BY <2>2, TaskBookAssumption
  <2>4. answer \in [Requests -> Resolutions \cup {None}]
        /\ answer' \in [Requests -> Resolutions \cup {None}]
    BY DEF IInv, TypeOK
  <2>5. ASSUME NEW q \in Requests
        PROVE  \/ answer'[q] = answer[q]
               \/ /\ answer[q] = None /\ asked[q] # None
                  /\ answer'[q] \in Resolutions
                  /\ Rules!Permitted(heard', standing'[asked[q]], asked[q], answer'[q])
    <3>1. CASE q = r
      BY <2>2, <2>3, <3>1
    <3>2. CASE q # r
      BY <2>2, <2>4, <3>2
    <3> QED
      BY <3>1, <3>2
  <2>6. Rules!AnswersPermitted
    BY <2>5 DEF Rules!AnswersPermitted, Resolutions
  <2>7. Rules!Answer
    BY <2>2, <2>4, <2>6 DEF Rules!Answer, Resolutions
  <2> QED
    BY <2>7 DEF Rules!Next
<1>6. CASE HandlePrune
  BY <1>6 DEF HandlePrune, Receive
<1>7. CASE UNCHANGED vars
  BY <1>7 DEF vars
<1> QED
  BY <1>1, <1>2, <1>3, <1>4, <1>5, <1>6, <1>7 DEF Next, Handle

\* The actor answers only as the normative skip rules allow.  Where neither
\* horizon has passed a request gets the directive that stands at its height,
\* and Skip by rule 2 only while none does and one above it was heard; never
\* because time passed (task_book.rs:8-38).
THEOREM RefinesSkipRules == Spec => ImplementsSkipRules
<1>1. ImplementsSkipRules <=> Rules!Init /\ [][Rules!Next]_(Rules!vars)
  BY DEF ImplementsSkipRules, Rules!Spec
<1> QED
  BY <1>1, InitRefines, StepRefines, Invariance, PTL DEF Spec
=============================================================================
