----------------------------- MODULE Aggregation -----------------------------
(***************************************************************************)
(* The operators certifying heights: the router's directives               *)
(* (router/src/sequencer.rs), what each node signs on them                 *)
(* (node/src/automaton.rs over the task book), and the quorum certificates *)
(* of the aggregation engine (external; core/src/bn254/scheme.rs is its    *)
(* scheme).                                                                *)
(*                                                                         *)
(* Directives are lost, delayed and reordered, and a node's task book is   *)
(* lost with its process: when a node answers its engine it may have heard *)
(* any of the directives ever broadcast, in any order.  TaskBook says what *)
(* one node then answers; here a node may answer what any of them could    *)
(* (Directives!Answerable).                                                *)
(*                                                                         *)
(* The engine asks once per height within its window and signs once, which *)
(* it remembers in its journal.                                            *)
(***************************************************************************)
EXTENDS Participants, Directives

CONSTANTS Window,       \* engine: heights it works on from its tip
          Timely,       \* TRUE: no round timeout passes, no validation fails
          MaxLosses,    \* bound on honest nodes that ever lose their journal
          None

Tips == 0 .. MaxHeight + 1

ASSUME AggregationAssumption ==
    /\ MaxHeight \in Nat /\ Window \in Nat \ {0} /\ MaxLosses \in Nat
    /\ Timely \in BOOLEAN
    /\ Skip \notin Tasks /\ None \notin Resolutions

VARIABLES
    out,        \* every directive the router has broadcast, in any life
    driving,    \* the height the router drives
    said,       \* what its rebroadcasts say: None when it drives no height
    tip,        \* each honest node's engine tip
    signed,     \* each honest node's journal: the digest it signed per height
    acks,       \* every signature an honest node has sent
    certs,      \* every certificate formed, as height and digest
    lost        \* the honest nodes that ever lost their journal

routerVars == <<out, driving, said>>
nodeVars == <<tip, signed, acks>>
vars == <<routerVars, nodeVars, certs, lost>>

TypeOK ==
    /\ out \subseteq Directives
    /\ driving \in Heights
    /\ said \in Resolutions \cup {None}
    /\ tip \in [Honest -> Tips]
    /\ signed \in [Honest -> [Heights -> Resolutions \cup {None}]]
    /\ acks \subseteq Honest \X Heights \X Resolutions
    /\ certs \subseteq Heights \X Resolutions
    /\ lost \subseteq Honest

Unsigned == [h \in Heights |-> None]

Init ==
    /\ out = {} /\ driving = 0 /\ said = None
    /\ tip = [n \in Honest |-> 0]
    /\ signed = [n \in Honest |-> Unsigned]
    /\ acks = {} /\ certs = {} /\ lost = {}

Certified(h) == \E d \in Resolutions : <<h, d>> \in certs

-----------------------------------------------------------------------------
(* The router.                                                             *)

\* Mutant of Announce: the router starts above heights without a certificate.
AnnounceAhead(h, t) ==
    /\ said = None
    /\ driving' = h
    /\ said' = t
    /\ out' = out \cup {[height |-> h, says |-> t]}
    /\ UNCHANGED <<nodeVars, certs, lost>>

\* A height is driven when all below it are certified (Router!NoGapOpened); a
\* router without its journal drives one that is certified itself.
Announce(h, t) ==
    /\ said = None
    /\ \A low \in 0 .. h - 1 : Certified(low)
    /\ driving' = h
    /\ said' = t
    /\ out' = out \cup {[height |-> h, says |-> t]}
    /\ UNCHANGED <<nodeVars, certs, lost>>

\* Past round_timeout Skip takes over.
GiveUp ==
    /\ ~Timely
    /\ said \in Tasks
    /\ said' = Skip
    /\ out' = out \cup {[height |-> driving, says |-> Skip]}
    /\ UNCHANGED <<driving, nodeVars, certs, lost>>

\* Mutant of Release: the height after it is driven at once.
ReleaseAndAdvance ==
    /\ said # None
    /\ Certified(driving)
    /\ said' = None
    /\ driving' = driving + 1
    /\ UNCHANGED <<out, nodeVars, certs, lost>>

\* The height resolved, or tip reports superseded it.
Release ==
    /\ said # None
    /\ Certified(driving)
    /\ said' = None
    /\ UNCHANGED <<out, driving, nodeVars, certs, lost>>

RouterRestart ==
    /\ said # None
    /\ said' = None
    /\ UNCHANGED <<out, driving, nodeVars, certs, lost>>

-----------------------------------------------------------------------------
(* The nodes.                                                              *)

\* The digest a node that heard some of the directives in out answers with: of
\* the resolution its task book gives, or of Skip when the announced task did
\* not validate within the retry budget.  Answerable grows with the directives, so
\* the largest set a node can have heard stands for every smaller one.
MayAnswer(h, d) ==
    \/ Answerable(out, h, d)
    \/ ~Timely /\ d = Skip /\ \E t \in Tasks : Answerable(out, h, t)

\* Mutant of Sign: the automaton validates with the skip fallback before it asks
\* the task book.
SignUnasked(n, h, d) ==
    /\ h >= tip[n] /\ h < tip[n] + Window
    /\ signed[n][h] = None
    /\ d = Skip
    /\ signed' = [signed EXCEPT ![n][h] = d]
    /\ acks' = acks \cup {<<n, h, d>>}
    /\ UNCHANGED <<tip, routerVars, certs, lost>>

Sign(n, h, d) ==
    /\ h >= tip[n] /\ h < tip[n] + Window
    /\ signed[n][h] = None
    /\ MayAnswer(h, d)
    /\ signed' = [signed EXCEPT ![n][h] = d]
    /\ acks' = acks \cup {<<n, h, d>>}
    /\ UNCHANGED <<tip, routerVars, certs, lost>>

\* A restart without the journal: what was sent has been sent.
LoseJournal(n) ==
    /\ lost' = lost \cup {n}
    /\ Cardinality(lost') <= MaxLosses
    /\ tip' = [tip EXCEPT ![n] = 0]
    /\ signed' = [signed EXCEPT ![n] = Unsigned]
    /\ UNCHANGED <<acks, routerVars, certs>>

-----------------------------------------------------------------------------
(* The engines, the router's included.                                     *)

Signers(h, d) == {n \in Honest : <<n, h, d>> \in acks}

\* Mutant of Certify: f + 1 signatures are enough.
CertifyByFew(h, d) ==
    /\ Cardinality(Signers(h, d) \cup Faulty) > MaxFaults
    /\ certs' = certs \cup {<<h, d>>}
    /\ UNCHANGED <<routerVars, nodeVars, lost>>

Certify(h, d) ==
    /\ Cardinality(Signers(h, d) \cup Faulty) >= Quorum
    /\ certs' = certs \cup {<<h, d>>}
    /\ UNCHANGED <<routerVars, nodeVars, lost>>

\* A node's tip passes a height it saw certified.
Learn(n) ==
    /\ tip[n] \in Heights
    /\ Certified(tip[n])
    /\ tip' = [tip EXCEPT ![n] = @ + 1]
    /\ UNCHANGED <<signed, acks, routerVars, certs, lost>>

Next ==
    \/ \E h \in Heights, t \in Tasks : Announce(h, t)
    \/ GiveUp \/ Release \/ RouterRestart
    \/ \E n \in Honest, h \in Heights, d \in Resolutions : Sign(n, h, d)
    \/ \E n \in Honest : LoseJournal(n) \/ Learn(n)
    \/ \E h \in Heights, d \in Resolutions : Certify(h, d)

Spec == Init /\ [][Next]_vars

\* Rebroadcasts for the driven height reach every honest node, each answers for it
\* and by the skip rules for those below, signatures are exchanged, and a quorum
\* of honest ones is enough for a certificate.  Journals are lost finitely often.
Fairness ==
    /\ WF_vars(GiveUp) /\ WF_vars(Release)
    /\ \A n \in Honest :
        /\ WF_vars(Learn(n))
        /\ \A h \in Heights :
            WF_vars(said # None /\ h <= driving /\ \E d \in Resolutions : Sign(n, h, d))
    /\ \A h \in Heights, d \in Resolutions :
        WF_vars(Cardinality(Signers(h, d)) >= Quorum /\ Certify(h, d))
    /\ <>[][\A n \in Honest : ~LoseJournal(n)]_vars

FairSpec == Spec /\ Fairness

-----------------------------------------------------------------------------
(* Properties.                                                             *)

\* Faulty participants and nodes that lost their journal may sign twice.
FewLosses == Cardinality(Faulty) + MaxLosses <= MaxFaults

\* No height ever gets two certificates, whatever order directives reach the
\* nodes in, whichever validators fail and however often the router restarts
\* (reporter.rs:210-217).
OneCertificate ==
    \A h \in Heights, d, e \in Resolutions :
        <<h, d>> \in certs /\ <<h, e>> \in certs => d = e

\* The digest height h is certified with.
CertifiedDigest(h) ==
    IF Certified(h) THEN CHOOSE d \in Resolutions : <<h, d>> \in certs ELSE None

\* The operators implement the ledger the router relies on: every certificate
\* is accounted for by the router's own directives (automaton.rs:148-173).
Ledger == INSTANCE HeightLedger WITH ledger <- [h \in Heights |-> CertifiedDigest(h)]
ImplementsLedger == Ledger!Spec

\* "The pipeline always advances" (README.md:22-23): a height the router drives
\* is certified, unless the router forgets it.
DrivenCertifies ==
    \A h \in Heights : (said # None /\ driving = h) ~> (said = None \/ Certified(h))
=============================================================================
