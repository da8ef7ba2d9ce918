-------------------------- MODULE ShapeStoreProofs --------------------------
(***************************************************************************)
(* Proofs about ShapeStore, for any connections, texts and number of       *)
(* changes, whether replies are lost or not.                               *)
(***************************************************************************)
EXTENDS ShapeStore, TLAPS

-----------------------------------------------------------------------------
(* The inductive invariant                                                 *)

HasDraft(s) == draft[s] # NoDraft

\* A draft belongs to a transaction, is newer than what everyone sees, and is
\* the only one.
DraftsAreNew ==
    /\ schema <= changes
    /\ \A s \in Sessions :
        /\ HasDraft(s) => tx[s] # "none" /\ draft[s] > schema /\ draft[s] <= changes
        /\ \A other \in Sessions \ {s} : ~(HasDraft(s) /\ HasDraft(other))

\* A savepoint goes back to an earlier draft, or to none.
SavepointsAreOlder ==
    \A s \in Sessions : \A version \in saved[s] :
        version <= draft[s] /\ (version # NoDraft => version > schema)

\* What a connection has changed for everyone, and what it is about to forget
\* outside of a transaction, everyone sees already.
ChangesFit ==
    \A s \in Sessions :
        /\ lastChange[s] <= schema
        /\ At(s, "forget") /\ tx[s] = "none" => call[s].version <= schema

\* What everyone sees now is one of the versions everyone has seen.
SchemaIsPublished == schema \in published

\* What is under way to the shared map was read outside of transactions.
SharesFit ==
    \A s \in Sessions :
        /\ At(s, "probe") /\ call[s].shareable => tx[s] = "none"
        /\ At(s, "answer") /\ call[s].shareable => call[s].version \in published

\* What is under way to a connection's own map.
OwnAnswersFit ==
    \A s \in Sessions : At(s, "answer") =>
        /\ call[s].version >= lastChange[s]
        /\ ~failed[s] => call[s].version >= draft[s]

\* What is in it; a change empties it before the connection goes on.
OwnFits ==
    \A s \in Sessions : \A text \in DOMAIN own[s] :
        /\ own[s][text] >= lastChange[s]
        /\ ~failed[s] /\ ~At(s, "forget") => own[s][text] >= draft[s]

\* Nothing was missed, and nothing is still to be forgotten.
Settled == ~Forgetting /\ ~missed

\* A transaction that may still commit a change.
ChangeIsOpen == \E s \in Sessions : HasDraft(s) /\ ~failed[s]

\* In settled times the shared map is right but for races, an answer that is
\* not late is right, and neither is there while a change may be committed.
SharedIsFresh ==
    Settled =>
        /\ \A text \in DOMAIN shared : text \in raced \/ (shared[text] = schema /\ ~ChangeIsOpen)
        /\ \A s \in Sessions : At(s, "answer") /\ call[s].shareable /\ ~call[s].late =>
                call[s].version = schema /\ ~ChangeIsOpen

IInv ==
    /\ TypeOK
    /\ DraftsAreNew
    /\ SavepointsAreOlder
    /\ ChangesFit
    /\ SchemaIsPublished
    /\ SharesFit
    /\ SharedIsCommitted
    /\ OwnAnswersFit
    /\ OwnFits
    /\ SharedIsFresh

-----------------------------------------------------------------------------
(* Lemmas                                                                  *)

\* The fields of a call, by what it waits for.
LEMMA CallFields ==
    ASSUME TypeOK, NEW s \in Sessions
    PROVE  /\ At(s, "probe") => call[s].text \in Texts /\ call[s].shareable \in BOOLEAN
           /\ At(s, "answer") => /\ call[s] \in [at : {"answer"}, text : Texts, shareable : BOOLEAN,
                                                 version : Versions, late : BOOLEAN]
           /\ At(s, "forget") => call[s].version \in Versions
BY DEF TypeOK, Calls, At

\* What Remembering makes of a map (ShapeCache::insert).
LEMMA RememberingAdds ==
    ASSUME NEW map \in Maps, NEW text \in Texts, NEW version \in Versions,
           NEW after \in Remembering(map, text, version)
    PROVE  /\ after \in Maps
           /\ DOMAIN after \subseteq DOMAIN map \cup {text}
           /\ \A t \in DOMAIN after : after[t] = IF t = text THEN version ELSE map[t]
<1>1. PICK cold \in {{}} \cup {{t} : t \in DOMAIN map} :
        after = [t \in (DOMAIN map \ cold) \cup {text} |-> IF t = text THEN version ELSE map[t]]
  BY DEF Remembering
<1>2. PICK held \in SUBSET Texts : map \in [held -> Versions]
  BY DEF Maps
<1>3. after \in [(DOMAIN map \ cold) \cup {text} -> Versions]
  BY <1>1, <1>2
<1>4. (DOMAIN map \ cold) \cup {text} \in SUBSET Texts
  BY <1>2
<1>5. after \in Maps
  BY <1>3, <1>4 DEF Maps
<1> QED
  BY <1>1, <1>5

\* An empty map is one (ShapeCache::clear).
LEMMA NothingIsMap == Nothing \in Maps
<1>1. Nothing \in [{} -> Versions] /\ {} \in SUBSET Texts
  BY DEF Nothing
<1> QED
  BY <1>1 DEF Maps

\* Versions are naturals, and NoDraft is older than all of them.
LEMMA VersionsAreNat ==
    /\ Versions \subseteq Nat /\ Drafts \subseteq Int
    /\ NoDraft = -1 /\ \A version \in Drafts : version >= NoDraft /\ (version # NoDraft => version \in Versions)
BY ShapeStoreAssumption DEF Versions, NoDraft, Drafts

-----------------------------------------------------------------------------
(* Types                                                                   *)

LEMMA TypesStart == Init => TypeOK
<1> SUFFICES ASSUME Init PROVE TypeOK
  OBVIOUS
<1>1. 0 \in Versions /\ IdleCall \in Calls
  BY ShapeStoreAssumption DEF Versions, Calls, IdleCall
<1>2. own \in [Sessions -> Maps] /\ shared \in Maps
  BY NothingIsMap DEF Init
<1> QED
  BY <1>1, <1>2 DEF Init, TypeOK, Drafts

\* What a change makes of the schema keeps its type.
LEMMA ChangedTypes ==
    ASSUME TypeOK, NEW s \in Sessions, Changed(s)
    PROVE  /\ schema' \in Versions /\ changes' \in Versions /\ published' \subseteq Versions
           /\ draft' \in [Sessions -> Drafts] /\ UNCHANGED <<saved, tx>>
<1>1. changes + 1 \in Versions /\ changes' = changes + 1
  BY ShapeStoreAssumption DEF TypeOK, Changed, Versions
<1>2. CASE tx[s] = "open"
  BY <1>1, <1>2 DEF TypeOK, Changed, Drafts
<1>3. CASE tx[s] # "open"
  BY <1>1, <1>3 DEF TypeOK, Changed, Drafts
<1> QED
  BY <1>2, <1>3

\* And so does what a refusal makes of a transaction.
LEMMA RefusedTypes ==
    ASSUME TypeOK, NEW s \in Sessions, Refused(s)
    PROVE  /\ draft' \in [Sessions -> Drafts] /\ tx' \in [Sessions -> {"none", "open", "aborted"}]
           /\ UNCHANGED <<schema, saved, changes, published>>
<1>1. PICK version \in saved[s] \cup {NoDraft} : draft' = [draft EXCEPT ![s] = version]
  BY DEF Refused
<1>2. version \in Drafts
  BY DEF TypeOK, Drafts
<1> QED
  BY <1>1, <1>2 DEF TypeOK, Refused

\* A transaction that is over has nothing left.
LEMMA EndedTypes ==
    ASSUME TypeOK, NEW s \in Sessions, Ended(s)
    PROVE  /\ draft' \in [Sessions -> Drafts] /\ saved' \in [Sessions -> SUBSET Drafts]
           /\ tx' \in [Sessions -> {"none", "open", "aborted"}] /\ failed' \in [Sessions -> BOOLEAN]
BY DEF TypeOK, Ended, Drafts

LEMMA TypesKept ==
    ASSUME TypeOK, [Next]_vars
    PROVE  TypeOK'
<1> USE DEF TypeOK, Await, IdleCall, cluster
<1> sharing' \in BOOLEAN
  BY DEF Next, vars
<1>0. CASE UNCHANGED vars
  BY <1>0 DEF vars
<1>1. ASSUME NEW s \in Sessions, Begin(s)
      PROVE  TypeOK'
  BY <1>1 DEF Begin
<1>2. ASSUME NEW s \in Sessions, Commit(s)
      PROVE  TypeOK'
  <2>1. Visible(s) \in Versions /\ (draft[s] # NoDraft => draft[s] \in Versions)
    BY <1>2 DEF Visible, Drafts
  <2>2. lastChange' \in [Sessions -> Versions]
    BY <1>2, <2>1 DEF Commit
  <2>3. schema' \in Versions /\ published' \subseteq Versions
    BY <1>2, <2>1 DEF Commit
  <2> QED
    BY <1>2, <2>2, <2>3, EndedTypes DEF Commit
<1>3. ASSUME NEW s \in Sessions, Rollback(s)
      PROVE  TypeOK'
  BY <1>3, EndedTypes DEF Rollback
<1>4. ASSUME NEW s \in Sessions, Reconnect(s)
      PROVE  TypeOK'
  BY <1>4, EndedTypes, NothingIsMap, ShapeStoreAssumption DEF Reconnect, Versions
<1>5. ASSUME NEW s \in Sessions, NEW text \in Texts, Describe(s, text)
      PROVE  TypeOK'
  BY <1>5 DEF Describe, Calls
<1>6. ASSUME NEW s \in Sessions, ProbeRuns(s)
      PROVE  TypeOK'
  <2>1. Visible(s) \in Versions
    BY <1>6 DEF Visible, Drafts
  <2>2. call' \in [Sessions -> Calls]
    BY <1>6, <2>1, CallFields DEF ProbeRuns, Calls
  <2> QED
    BY <1>6, <2>2 DEF ProbeRuns
<1>7. ASSUME NEW s \in Sessions, ProbeFails(s)
      PROVE  TypeOK'
  <2>1. tx' \in [Sessions -> {"none", "open", "aborted"}] /\ call' \in [Sessions -> Calls]
    BY <1>7 DEF ProbeFails, Calls
  <2> QED
    BY <1>7, <2>1 DEF ProbeFails
<1>8. ASSUME NEW s \in Sessions, CacheShape(s)
      PROVE  TypeOK'
  <2>1. call[s].text \in Texts /\ call[s].version \in Versions
    BY <1>8, CallFields DEF CacheShape
  <2>2. own' \in [Sessions -> Maps]
    BY <1>8, <2>1, RememberingAdds DEF CacheShape
  <2>3. shared' \in Maps /\ raced' \subseteq Texts
    BY <1>8, <2>1, RememberingAdds DEF CacheShape
  <2> QED
    BY <1>8, <2>2, <2>3 DEF CacheShape, Calls
<1>9. ASSUME NEW s \in Sessions, Change(s)
      PROVE  TypeOK'
  BY <1>9 DEF Change, Calls
<1>10. ASSUME NEW s \in Sessions, ChangeRuns(s)
       PROVE  TypeOK'
  BY <1>10, ChangedTypes DEF ChangeRuns, Calls
<1>11. ASSUME NEW s \in Sessions, ChangeFails(s)
       PROVE  TypeOK'
  <2>1. failed' \in [Sessions -> BOOLEAN] /\ call' \in [Sessions -> Calls]
    BY <1>11 DEF ChangeFails, Calls
  <2>2. /\ schema' \in Versions /\ changes' \in Versions /\ published' \subseteq Versions
        /\ draft' \in [Sessions -> Drafts] /\ saved' \in [Sessions -> SUBSET Drafts]
        /\ tx' \in [Sessions -> {"none", "open", "aborted"}] /\ missed' \in BOOLEAN
    <3>1. CASE UNCHANGED <<cluster, missed>>
      BY <3>1
    <3>2. CASE Refused(s) /\ UNCHANGED missed
      BY <3>2, RefusedTypes
    <3>3. CASE Changed(s) /\ missed' = TRUE
      BY <3>3, ChangedTypes
    <3> QED
      BY <1>11, <3>1, <3>2, <3>3 DEF ChangeFails
  <2> QED
    BY <1>11, <2>1, <2>2 DEF ChangeFails
<1>12. ASSUME NEW s \in Sessions, ForgetShapes(s)
       PROVE  TypeOK'
  <2>1. \A t \in Sessions : MarkedLate(s)[t] \in Calls
    BY CallFields DEF MarkedLate, Calls
  <2>2. call' \in [Sessions -> Calls]
    BY <1>12, <2>1 DEF ForgetShapes, MarkedLate
  <2>3. lastChange' \in [Sessions -> Versions]
    BY <1>12, CallFields DEF ForgetShapes
  <2> QED
    BY <1>12, <2>2, <2>3, NothingIsMap DEF ForgetShapes
<1>13. ASSUME NEW s \in Sessions, Savepoint(s)
       PROVE  TypeOK'
  BY <1>13 DEF Savepoint
<1>14. ASSUME NEW s \in Sessions, RollbackTo(s)
       PROVE  TypeOK'
  <2>1. PICK version \in saved[s] :
            /\ draft' = [draft EXCEPT ![s] = version]
            /\ saved' = [saved EXCEPT ![s] = {v \in @ : v <= version}]
    BY <1>14 DEF RollbackTo
  <2> QED
    BY <1>14, <2>1 DEF RollbackTo
<1>15. ASSUME NEW s \in Sessions, Expire(s)
       PROVE  TypeOK'
  BY <1>15 DEF Expire, Drafts
<1> QED
  BY <1>0, <1>1, <1>2, <1>3, <1>4, <1>5, <1>6, <1>7, <1>8, <1>9, <1>10, <1>11, <1>12, <1>13, <1>14,
     <1>15 DEF Next

\* Every variable of ShapeStore keeps its type.
THEOREM StoreTypesHold == Spec => []TypeOK
BY TypesStart, TypesKept, PTL DEF Spec

-----------------------------------------------------------------------------
(* The invariant is inductive: one lemma per action                        *)

\* Versions are compared as numbers.
LEMMA VersionsCompare ==
    ASSUME TypeOK
    PROVE  /\ schema \in Nat /\ changes \in Nat
           /\ \A s \in Sessions : lastChange[s] \in Nat /\ draft[s] \in Int /\ draft[s] >= NoDraft
           /\ \A s \in Sessions : draft[s] # NoDraft => draft[s] \in Nat
           /\ \A s \in Sessions : \A version \in saved[s] : version \in Int /\ version >= NoDraft
           /\ \A s \in Sessions : \A text \in DOMAIN own[s] : own[s][text] \in Nat
           /\ \A s \in Sessions : At(s, "answer") \/ At(s, "forget") => call[s].version \in Nat
<1>1. \A map \in Maps : \A text \in DOMAIN map : map[text] \in Nat
  BY VersionsAreNat DEF Maps
<1>2. \A s \in Sessions : At(s, "answer") \/ At(s, "forget") => call[s].version \in Nat
  BY CallFields, VersionsAreNat
<1>3. \A s \in Sessions : own[s] \in Maps /\ draft[s] \in Drafts /\ saved[s] \subseteq Drafts
  BY DEF TypeOK
<1>4. schema \in Nat /\ changes \in Nat /\ \A s \in Sessions : lastChange[s] \in Nat
  BY VersionsAreNat DEF TypeOK
<1> QED
  BY <1>1, <1>2, <1>3, <1>4, VersionsAreNat

LEMMA InvariantStarts == Init => IInv
<1> SUFFICES ASSUME Init PROVE IInv
  OBVIOUS
<1>1. TypeOK
  BY TypesStart
<1>2. \A s \in Sessions : draft[s] = NoDraft /\ saved[s] = {} /\ call[s].at = "idle" /\ DOMAIN own[s] = {}
  BY DEF Init, Nothing, IdleCall
<1>3. /\ DOMAIN shared = {} /\ schema = 0 /\ changes = 0 /\ published = {0}
      /\ \A s \in Sessions : lastChange[s] = 0
  BY DEF Init, Nothing
<1> QED
  BY <1>1, <1>2, <1>3 DEF IInv, DraftsAreNew, SavepointsAreOlder, ChangesFit, SchemaIsPublished, SharesFit,
     SharedIsCommitted, OwnAnswersFit, OwnFits, SharedIsFresh, HasDraft, At

\* BEGIN opens a transaction, which has no draft yet.
LEMMA BeginKeeps ==
    ASSUME IInv, NEW s \in Sessions, Begin(s), UNCHANGED sharing
    PROVE  IInv'
<1> USE DEF TypeOK, HasDraft, At, Await, IdleCall, cluster, Begin
<1>1. TypeOK'
  BY TypesKept DEF IInv, Next
<1>2. DraftsAreNew'
    BY VersionsCompare, VersionsAreNat DEF IInv, DraftsAreNew, SavepointsAreOlder, ChangesFit
<1>3. SavepointsAreOlder'
    BY VersionsCompare, VersionsAreNat DEF IInv, SavepointsAreOlder, DraftsAreNew
<1>4. ChangesFit'
    BY VersionsCompare, VersionsAreNat DEF IInv, ChangesFit, DraftsAreNew
<1>5. SchemaIsPublished'
    BY VersionsCompare, VersionsAreNat DEF IInv, SchemaIsPublished
<1>6. SharesFit'
    BY VersionsCompare, VersionsAreNat DEF IInv, SharesFit, SchemaIsPublished, DraftsAreNew
<1>7. SharedIsCommitted'
    BY VersionsCompare, VersionsAreNat DEF IInv, SharedIsCommitted, SharesFit
<1>8. OwnAnswersFit'
    BY VersionsCompare, VersionsAreNat DEF IInv, OwnAnswersFit, ChangesFit, DraftsAreNew,
     SavepointsAreOlder
<1>9. OwnFits'
    BY VersionsCompare, VersionsAreNat DEF IInv, OwnFits, OwnAnswersFit, ChangesFit, DraftsAreNew,
     SavepointsAreOlder
<1>10. SharedIsFresh'
    BY VersionsCompare, VersionsAreNat DEF IInv, SharedIsFresh, SharesFit, DraftsAreNew,
     SavepointsAreOlder, Settled, Forgetting, ChangeIsOpen
<1> QED
  BY <1>1, <1>2, <1>3, <1>4, <1>5, <1>6, <1>7, <1>8, <1>9, <1>10 DEF IInv

\* A commit makes the draft what everyone sees: it is newer than that, the only one,
\* and nothing shared was right but by a race.
LEMMA CommitKeeps ==
    ASSUME IInv, NEW s \in Sessions, Commit(s), UNCHANGED sharing
    PROVE  IInv'
<1> USE DEF TypeOK, HasDraft, At, Await, IdleCall, cluster, Commit
<1>1. TypeOK'
  BY TypesKept DEF IInv, Next
<1>2. DraftsAreNew'
    BY VersionsCompare, VersionsAreNat DEF IInv, DraftsAreNew, SavepointsAreOlder, ChangesFit,
     Visible, Ended
<1>3. SavepointsAreOlder'
    BY VersionsCompare, VersionsAreNat DEF IInv, SavepointsAreOlder, DraftsAreNew, Visible, Ended
<1>4. ChangesFit'
    BY VersionsCompare, VersionsAreNat DEF IInv, ChangesFit, DraftsAreNew, Visible, Ended
<1>5. SchemaIsPublished'
    BY VersionsCompare, VersionsAreNat DEF IInv, SchemaIsPublished, Visible, Ended
<1>6. SharesFit'
    BY VersionsCompare, VersionsAreNat DEF IInv, SharesFit, SchemaIsPublished, DraftsAreNew,
     Visible, Ended
<1>7. SharedIsCommitted'
    BY VersionsCompare, VersionsAreNat DEF IInv, SharedIsCommitted, SharesFit, Visible, Ended
<1>8. OwnAnswersFit'
    BY VersionsCompare, VersionsAreNat DEF IInv, OwnAnswersFit, ChangesFit, DraftsAreNew,
     SavepointsAreOlder, Visible, Ended
<1>9. OwnFits'
    BY VersionsCompare, VersionsAreNat DEF IInv, OwnFits, OwnAnswersFit, ChangesFit, DraftsAreNew,
     SavepointsAreOlder, Visible, Ended
<1>10. SharedIsFresh'
    BY VersionsCompare, VersionsAreNat DEF IInv, SharedIsFresh, SharesFit, DraftsAreNew,
     SavepointsAreOlder, Settled, Forgetting, ChangeIsOpen, Visible, Ended
<1> QED
  BY <1>1, <1>2, <1>3, <1>4, <1>5, <1>6, <1>7, <1>8, <1>9, <1>10 DEF IInv

\* A rollback drops the draft.
LEMMA RollbackKeeps ==
    ASSUME IInv, NEW s \in Sessions, Rollback(s), UNCHANGED sharing
    PROVE  IInv'
<1> USE DEF TypeOK, HasDraft, At, Await, IdleCall, cluster, Rollback
<1>1. TypeOK'
  BY TypesKept DEF IInv, Next
<1>2. DraftsAreNew'
    BY VersionsCompare, VersionsAreNat DEF IInv, DraftsAreNew, SavepointsAreOlder, ChangesFit, Ended
<1>3. SavepointsAreOlder'
    BY VersionsCompare, VersionsAreNat DEF IInv, SavepointsAreOlder, DraftsAreNew, Ended
<1>4. ChangesFit'
    BY VersionsCompare, VersionsAreNat DEF IInv, ChangesFit, DraftsAreNew, Ended
<1>5. SchemaIsPublished'
    BY VersionsCompare, VersionsAreNat DEF IInv, SchemaIsPublished, Ended
<1>6. SharesFit'
    BY VersionsCompare, VersionsAreNat DEF IInv, SharesFit, SchemaIsPublished, DraftsAreNew, Ended
<1>7. SharedIsCommitted'
    BY VersionsCompare, VersionsAreNat DEF IInv, SharedIsCommitted, SharesFit, Ended
<1>8. OwnAnswersFit'
    BY VersionsCompare, VersionsAreNat DEF IInv, OwnAnswersFit, ChangesFit, DraftsAreNew,
     SavepointsAreOlder, Ended
<1>9. OwnFits'
    BY VersionsCompare, VersionsAreNat DEF IInv, OwnFits, OwnAnswersFit, ChangesFit, DraftsAreNew,
     SavepointsAreOlder, Ended
<1>10. SharedIsFresh'
    BY VersionsCompare, VersionsAreNat DEF IInv, SharedIsFresh, SharesFit, DraftsAreNew,
     SavepointsAreOlder, Settled, Forgetting, ChangeIsOpen, Ended
<1> QED
  BY <1>1, <1>2, <1>3, <1>4, <1>5, <1>6, <1>7, <1>8, <1>9, <1>10 DEF IInv

\* A savepoint keeps the draft there is.
LEMMA SavepointKeeps ==
    ASSUME IInv, NEW s \in Sessions, Savepoint(s), UNCHANGED sharing
    PROVE  IInv'
<1> USE DEF TypeOK, HasDraft, At, Await, IdleCall, cluster, Savepoint
<1>1. TypeOK'
  BY TypesKept DEF IInv, Next
<1>2. DraftsAreNew'
    BY VersionsCompare, VersionsAreNat DEF IInv, DraftsAreNew, SavepointsAreOlder, ChangesFit
<1>3. SavepointsAreOlder'
    BY VersionsCompare, VersionsAreNat DEF IInv, SavepointsAreOlder, DraftsAreNew
<1>4. ChangesFit'
    BY VersionsCompare, VersionsAreNat DEF IInv, ChangesFit, DraftsAreNew
<1>5. SchemaIsPublished'
    BY VersionsCompare, VersionsAreNat DEF IInv, SchemaIsPublished
<1>6. SharesFit'
    BY VersionsCompare, VersionsAreNat DEF IInv, SharesFit, SchemaIsPublished, DraftsAreNew
<1>7. SharedIsCommitted'
    BY VersionsCompare, VersionsAreNat DEF IInv, SharedIsCommitted, SharesFit
<1>8. OwnAnswersFit'
    BY VersionsCompare, VersionsAreNat DEF IInv, OwnAnswersFit, ChangesFit, DraftsAreNew,
     SavepointsAreOlder
<1>9. OwnFits'
    BY VersionsCompare, VersionsAreNat DEF IInv, OwnFits, OwnAnswersFit, ChangesFit, DraftsAreNew,
     SavepointsAreOlder
<1>10. SharedIsFresh'
    BY VersionsCompare, VersionsAreNat DEF IInv, SharedIsFresh, SharesFit, DraftsAreNew,
     SavepointsAreOlder, Settled, Forgetting, ChangeIsOpen
<1> QED
  BY <1>1, <1>2, <1>3, <1>4, <1>5, <1>6, <1>7, <1>8, <1>9, <1>10 DEF IInv

\* Going back to a savepoint makes the draft an earlier one, or none.
LEMMA RollbackToKeeps ==
    ASSUME IInv, NEW s \in Sessions, RollbackTo(s), UNCHANGED sharing
    PROVE  IInv'
<1> USE DEF TypeOK, HasDraft, At, Await, IdleCall, cluster, RollbackTo
<1>1. TypeOK'
  BY TypesKept DEF IInv, Next
<1>2. PICK version \in saved[s] :
        /\ draft' = [draft EXCEPT ![s] = version]
        /\ saved' = [saved EXCEPT ![s] = {v \in @ : v <= version}]
  OBVIOUS
<1>3. version \in Int /\ version <= draft[s] /\ (version # NoDraft => version > schema /\ HasDraft(s))
  BY <1>2, VersionsCompare, VersionsAreNat DEF IInv, SavepointsAreOlder
<1>4. DraftsAreNew'
    BY VersionsCompare, VersionsAreNat, <1>2, <1>3 DEF IInv, DraftsAreNew, SavepointsAreOlder,
     ChangesFit
<1>5. SavepointsAreOlder'
    BY VersionsCompare, VersionsAreNat, <1>2, <1>3 DEF IInv, SavepointsAreOlder, DraftsAreNew
<1>6. ChangesFit'
    BY VersionsCompare, VersionsAreNat, <1>2, <1>3 DEF IInv, ChangesFit, DraftsAreNew
<1>7. SchemaIsPublished'
    BY VersionsCompare, VersionsAreNat, <1>2, <1>3 DEF IInv, SchemaIsPublished
<1>8. SharesFit'
    BY VersionsCompare, VersionsAreNat, <1>2, <1>3 DEF IInv, SharesFit, SchemaIsPublished,
     DraftsAreNew
<1>9. SharedIsCommitted'
    BY VersionsCompare, VersionsAreNat, <1>2, <1>3 DEF IInv, SharedIsCommitted, SharesFit
<1>10. OwnAnswersFit'
    BY VersionsCompare, VersionsAreNat, <1>2, <1>3 DEF IInv, OwnAnswersFit, ChangesFit,
     DraftsAreNew, SavepointsAreOlder
<1>11. OwnFits'
    BY VersionsCompare, VersionsAreNat, <1>2, <1>3 DEF IInv, OwnFits, OwnAnswersFit, ChangesFit,
     DraftsAreNew, SavepointsAreOlder
<1>12. SharedIsFresh'
    BY VersionsCompare, VersionsAreNat, <1>2, <1>3 DEF IInv, SharedIsFresh, SharesFit, DraftsAreNew,
     SavepointsAreOlder, Settled, Forgetting, ChangeIsOpen
<1> QED
  BY <1>1, <1>4, <1>5, <1>6, <1>7, <1>8, <1>9, <1>10, <1>11, <1>12 DEF IInv

\* A transaction that expires drops its draft.
LEMMA ExpireKeeps ==
    ASSUME IInv, NEW s \in Sessions, Expire(s), UNCHANGED sharing
    PROVE  IInv'
<1> USE DEF TypeOK, HasDraft, At, Await, IdleCall, cluster, Expire
<1>1. TypeOK'
  BY TypesKept DEF IInv, Next
<1>2. DraftsAreNew'
    BY VersionsCompare, VersionsAreNat DEF IInv, DraftsAreNew, SavepointsAreOlder, ChangesFit
<1>3. SavepointsAreOlder'
    BY VersionsCompare, VersionsAreNat DEF IInv, SavepointsAreOlder, DraftsAreNew
<1>4. ChangesFit'
    BY VersionsCompare, VersionsAreNat DEF IInv, ChangesFit, DraftsAreNew
<1>5. SchemaIsPublished'
    BY VersionsCompare, VersionsAreNat DEF IInv, SchemaIsPublished
<1>6. SharesFit'
    BY VersionsCompare, VersionsAreNat DEF IInv, SharesFit, SchemaIsPublished, DraftsAreNew
<1>7. SharedIsCommitted'
    BY VersionsCompare, VersionsAreNat DEF IInv, SharedIsCommitted, SharesFit
<1>8. OwnAnswersFit'
    BY VersionsCompare, VersionsAreNat DEF IInv, OwnAnswersFit, ChangesFit, DraftsAreNew,
     SavepointsAreOlder
<1>9. OwnFits'
    BY VersionsCompare, VersionsAreNat DEF IInv, OwnFits, OwnAnswersFit, ChangesFit, DraftsAreNew,
     SavepointsAreOlder
<1>10. SharedIsFresh'
    BY VersionsCompare, VersionsAreNat DEF IInv, SharedIsFresh, SharesFit, DraftsAreNew,
     SavepointsAreOlder, Settled, Forgetting, ChangeIsOpen
<1> QED
  BY <1>1, <1>2, <1>3, <1>4, <1>5, <1>6, <1>7, <1>8, <1>9, <1>10 DEF IInv

\* A new client starts with nothing.
LEMMA ReconnectKeeps ==
    ASSUME IInv, NEW s \in Sessions, Reconnect(s), UNCHANGED sharing
    PROVE  IInv'
<1> USE DEF TypeOK, HasDraft, At, Await, IdleCall, cluster, Reconnect
<1>1. TypeOK'
  BY TypesKept DEF IInv, Next
<1>2. DraftsAreNew'
    BY VersionsCompare, VersionsAreNat DEF IInv, DraftsAreNew, SavepointsAreOlder, ChangesFit,
     Ended, Nothing
<1>3. SavepointsAreOlder'
    BY VersionsCompare, VersionsAreNat DEF IInv, SavepointsAreOlder, DraftsAreNew, Ended, Nothing
<1>4. ChangesFit'
    BY VersionsCompare, VersionsAreNat DEF IInv, ChangesFit, DraftsAreNew, Ended, Nothing
<1>5. SchemaIsPublished'
    BY VersionsCompare, VersionsAreNat DEF IInv, SchemaIsPublished, Ended, Nothing
<1>6. SharesFit'
    BY VersionsCompare, VersionsAreNat DEF IInv, SharesFit, SchemaIsPublished, DraftsAreNew, Ended,
     Nothing
<1>7. SharedIsCommitted'
    BY VersionsCompare, VersionsAreNat DEF IInv, SharedIsCommitted, SharesFit, Ended, Nothing
<1>8. OwnAnswersFit'
    BY VersionsCompare, VersionsAreNat DEF IInv, OwnAnswersFit, ChangesFit, DraftsAreNew,
     SavepointsAreOlder, Ended, Nothing
<1>9. OwnFits'
    BY VersionsCompare, VersionsAreNat DEF IInv, OwnFits, OwnAnswersFit, ChangesFit, DraftsAreNew,
     SavepointsAreOlder, Ended, Nothing
<1>10. SharedIsFresh'
    BY VersionsCompare, VersionsAreNat DEF IInv, SharedIsFresh, SharesFit, DraftsAreNew,
     SavepointsAreOlder, Settled, Forgetting, ChangeIsOpen, Ended, Nothing
<1> QED
  BY <1>1, <1>2, <1>3, <1>4, <1>5, <1>6, <1>7, <1>8, <1>9, <1>10 DEF IInv

\* A describe starts, to be shared outside of a transaction only.
LEMMA DescribeKeeps ==
    ASSUME IInv, NEW s \in Sessions, NEW text \in Texts, Describe(s, text), UNCHANGED sharing
    PROVE  IInv'
<1> USE DEF TypeOK, HasDraft, At, Await, IdleCall, cluster, Describe
<1>1. TypeOK'
  BY TypesKept DEF IInv, Next
<1>2. DraftsAreNew'
    BY VersionsCompare, VersionsAreNat DEF IInv, DraftsAreNew, SavepointsAreOlder, ChangesFit
<1>3. SavepointsAreOlder'
    BY VersionsCompare, VersionsAreNat DEF IInv, SavepointsAreOlder, DraftsAreNew
<1>4. ChangesFit'
    BY VersionsCompare, VersionsAreNat DEF IInv, ChangesFit, DraftsAreNew
<1>5. SchemaIsPublished'
    BY VersionsCompare, VersionsAreNat DEF IInv, SchemaIsPublished
<1>6. SharesFit'
    BY VersionsCompare, VersionsAreNat DEF IInv, SharesFit, SchemaIsPublished, DraftsAreNew
<1>7. SharedIsCommitted'
    BY VersionsCompare, VersionsAreNat DEF IInv, SharedIsCommitted, SharesFit
<1>8. OwnAnswersFit'
    BY VersionsCompare, VersionsAreNat DEF IInv, OwnAnswersFit, ChangesFit, DraftsAreNew,
     SavepointsAreOlder
<1>9. OwnFits'
    BY VersionsCompare, VersionsAreNat DEF IInv, OwnFits, OwnAnswersFit, ChangesFit, DraftsAreNew,
     SavepointsAreOlder
<1>10. SharedIsFresh'
    BY VersionsCompare, VersionsAreNat DEF IInv, SharedIsFresh, SharesFit, DraftsAreNew,
     SavepointsAreOlder, Settled, Forgetting, ChangeIsOpen
<1> QED
  BY <1>1, <1>2, <1>3, <1>4, <1>5, <1>6, <1>7, <1>8, <1>9, <1>10 DEF IInv

\* A probe reads what its connection sees; no other connection has a draft then.
LEMMA ProbeRunsKeeps ==
    ASSUME IInv, NEW s \in Sessions, ProbeRuns(s), UNCHANGED sharing
    PROVE  IInv'
<1> USE DEF TypeOK, HasDraft, At, Await, IdleCall, cluster, ProbeRuns
<1>1. TypeOK'
  BY TypesKept DEF IInv, Next
<1>2. DraftsAreNew'
    BY VersionsCompare, VersionsAreNat DEF IInv, DraftsAreNew, SavepointsAreOlder, ChangesFit,
     Visible, Locked
<1>3. SavepointsAreOlder'
    BY VersionsCompare, VersionsAreNat DEF IInv, SavepointsAreOlder, DraftsAreNew, Visible, Locked
<1>4. ChangesFit'
    BY VersionsCompare, VersionsAreNat DEF IInv, ChangesFit, DraftsAreNew, Visible, Locked
<1>5. SchemaIsPublished'
    BY VersionsCompare, VersionsAreNat DEF IInv, SchemaIsPublished, Visible, Locked
<1>6. SharesFit'
    BY VersionsCompare, VersionsAreNat DEF IInv, SharesFit, SchemaIsPublished, DraftsAreNew,
     Visible, Locked
<1>7. SharedIsCommitted'
    BY VersionsCompare, VersionsAreNat DEF IInv, SharedIsCommitted, SharesFit, Visible, Locked
<1>8. OwnAnswersFit'
    BY VersionsCompare, VersionsAreNat DEF IInv, OwnAnswersFit, ChangesFit, DraftsAreNew,
     SavepointsAreOlder, Visible, Locked
<1>9. OwnFits'
    BY VersionsCompare, VersionsAreNat DEF IInv, OwnFits, OwnAnswersFit, ChangesFit, DraftsAreNew,
     SavepointsAreOlder, Visible, Locked
<1>10. SharedIsFresh'
    BY VersionsCompare, VersionsAreNat DEF IInv, SharedIsFresh, SharesFit, DraftsAreNew,
     SavepointsAreOlder, Settled, Forgetting, ChangeIsOpen, Visible, Locked
<1> QED
  BY <1>1, <1>2, <1>3, <1>4, <1>5, <1>6, <1>7, <1>8, <1>9, <1>10 DEF IInv

\* A probe that fails changes nothing that counts.
LEMMA ProbeFailsKeeps ==
    ASSUME IInv, NEW s \in Sessions, ProbeFails(s), UNCHANGED sharing
    PROVE  IInv'
<1> USE DEF TypeOK, HasDraft, At, Await, IdleCall, cluster, ProbeFails
<1>1. TypeOK'
  BY TypesKept DEF IInv, Next
<1>2. DraftsAreNew'
    BY VersionsCompare, VersionsAreNat DEF IInv, DraftsAreNew, SavepointsAreOlder, ChangesFit
<1>3. SavepointsAreOlder'
    BY VersionsCompare, VersionsAreNat DEF IInv, SavepointsAreOlder, DraftsAreNew
<1>4. ChangesFit'
    BY VersionsCompare, VersionsAreNat DEF IInv, ChangesFit, DraftsAreNew
<1>5. SchemaIsPublished'
    BY VersionsCompare, VersionsAreNat DEF IInv, SchemaIsPublished
<1>6. SharesFit'
    BY VersionsCompare, VersionsAreNat DEF IInv, SharesFit, SchemaIsPublished, DraftsAreNew
<1>7. SharedIsCommitted'
    BY VersionsCompare, VersionsAreNat DEF IInv, SharedIsCommitted, SharesFit
<1>8. OwnAnswersFit'
    BY VersionsCompare, VersionsAreNat DEF IInv, OwnAnswersFit, ChangesFit, DraftsAreNew,
     SavepointsAreOlder
<1>9. OwnFits'
    BY VersionsCompare, VersionsAreNat DEF IInv, OwnFits, OwnAnswersFit, ChangesFit, DraftsAreNew,
     SavepointsAreOlder
<1>10. SharedIsFresh'
    BY VersionsCompare, VersionsAreNat DEF IInv, SharedIsFresh, SharesFit, DraftsAreNew,
     SavepointsAreOlder, Settled, Forgetting, ChangeIsOpen
<1> QED
  BY <1>1, <1>2, <1>3, <1>4, <1>5, <1>6, <1>7, <1>8, <1>9, <1>10 DEF IInv

\* An answer is remembered: it is as fit as the answer was, and late only in a race.
LEMMA CacheShapeKeeps ==
    ASSUME IInv, NEW s \in Sessions, CacheShape(s), UNCHANGED sharing
    PROVE  IInv'
<1> USE DEF TypeOK, HasDraft, At, Await, IdleCall, cluster, CacheShape
<1>1. TypeOK'
  BY TypesKept DEF IInv, Next
<1>2. call[s].text \in Texts /\ call[s].version \in Versions
  BY CallFields DEF IInv
<1>3. \A text \in DOMAIN shared' :
        \/ text \in DOMAIN shared /\ shared'[text] = shared[text] /\ (text \in raced => text \in raced')
        \/ call[s].shareable /\ sharing /\ text = call[s].text /\ shared'[text] = call[s].version
  BY <1>2, RememberingAdds DEF IInv
<1>4. \A text \in DOMAIN own'[s] :
        \/ text \in DOMAIN own[s] /\ own'[s][text] = own[s][text]
        \/ own'[s][text] = call[s].version
  BY <1>2, RememberingAdds DEF IInv
<1>5. call[s].shareable /\ sharing /\ call[s].late => call[s].text \in raced'
  OBVIOUS
<1>6. DraftsAreNew'
    BY VersionsCompare, VersionsAreNat, <1>2, <1>3, <1>4, <1>5 DEF IInv, DraftsAreNew,
     SavepointsAreOlder, ChangesFit
<1>7. SavepointsAreOlder'
    BY VersionsCompare, VersionsAreNat, <1>2, <1>3, <1>4, <1>5 DEF IInv, SavepointsAreOlder,
     DraftsAreNew
<1>8. ChangesFit'
    BY VersionsCompare, VersionsAreNat, <1>2, <1>3, <1>4, <1>5 DEF IInv, ChangesFit, DraftsAreNew
<1>9. SchemaIsPublished'
    BY VersionsCompare, VersionsAreNat, <1>2, <1>3, <1>4, <1>5 DEF IInv, SchemaIsPublished
<1>10. SharesFit'
    BY VersionsCompare, VersionsAreNat, <1>2, <1>3, <1>4, <1>5 DEF IInv, SharesFit,
     SchemaIsPublished, DraftsAreNew
<1>11. SharedIsCommitted'
    BY VersionsCompare, VersionsAreNat, <1>2, <1>3, <1>4, <1>5 DEF IInv, SharedIsCommitted,
     SharesFit
<1>12. OwnAnswersFit'
    BY VersionsCompare, VersionsAreNat, <1>2, <1>3, <1>4, <1>5 DEF IInv, OwnAnswersFit, ChangesFit,
     DraftsAreNew, SavepointsAreOlder
<1>13. OwnFits'
    BY VersionsCompare, VersionsAreNat, <1>2, <1>3, <1>4, <1>5 DEF IInv, OwnFits, OwnAnswersFit,
     ChangesFit, DraftsAreNew, SavepointsAreOlder
<1>14. SharedIsFresh'
    BY VersionsCompare, VersionsAreNat, <1>2, <1>3, <1>4, <1>5 DEF IInv, SharedIsFresh, SharesFit,
     DraftsAreNew, SavepointsAreOlder, Settled, Forgetting, ChangeIsOpen
<1> QED
  BY <1>1, <1>6, <1>7, <1>8, <1>9, <1>10, <1>11, <1>12, <1>13, <1>14 DEF IInv

\* A change is sent.
LEMMA ChangeKeeps ==
    ASSUME IInv, NEW s \in Sessions, Change(s), UNCHANGED sharing
    PROVE  IInv'
<1> USE DEF TypeOK, HasDraft, At, Await, IdleCall, cluster, Change
<1>1. TypeOK'
  BY TypesKept DEF IInv, Next
<1>2. DraftsAreNew'
    BY VersionsCompare, VersionsAreNat DEF IInv, DraftsAreNew, SavepointsAreOlder, ChangesFit
<1>3. SavepointsAreOlder'
    BY VersionsCompare, VersionsAreNat DEF IInv, SavepointsAreOlder, DraftsAreNew
<1>4. ChangesFit'
    BY VersionsCompare, VersionsAreNat DEF IInv, ChangesFit, DraftsAreNew
<1>5. SchemaIsPublished'
    BY VersionsCompare, VersionsAreNat DEF IInv, SchemaIsPublished
<1>6. SharesFit'
    BY VersionsCompare, VersionsAreNat DEF IInv, SharesFit, SchemaIsPublished, DraftsAreNew
<1>7. SharedIsCommitted'
    BY VersionsCompare, VersionsAreNat DEF IInv, SharedIsCommitted, SharesFit
<1>8. OwnAnswersFit'
    BY VersionsCompare, VersionsAreNat DEF IInv, OwnAnswersFit, ChangesFit, DraftsAreNew,
     SavepointsAreOlder
<1>9. OwnFits'
    BY VersionsCompare, VersionsAreNat DEF IInv, OwnFits, OwnAnswersFit, ChangesFit, DraftsAreNew,
     SavepointsAreOlder
<1>10. SharedIsFresh'
    BY VersionsCompare, VersionsAreNat DEF IInv, SharedIsFresh, SharesFit, DraftsAreNew,
     SavepointsAreOlder, Settled, Forgetting, ChangeIsOpen
<1> QED
  BY <1>1, <1>2, <1>3, <1>4, <1>5, <1>6, <1>7, <1>8, <1>9, <1>10 DEF IInv

\* A change runs when no other connection has a draft, and is not forgotten yet.
LEMMA ChangeRunsKeeps ==
    ASSUME IInv, NEW s \in Sessions, ChangeRuns(s), UNCHANGED sharing
    PROVE  IInv'
<1> USE DEF TypeOK, HasDraft, At, Await, IdleCall, cluster, ChangeRuns
<1>1. TypeOK'
  BY TypesKept DEF IInv, Next
<1>2. DraftsAreNew'
    BY VersionsCompare, VersionsAreNat DEF IInv, DraftsAreNew, SavepointsAreOlder, ChangesFit,
     Changed, Locked
<1>3. SavepointsAreOlder'
    BY VersionsCompare, VersionsAreNat DEF IInv, SavepointsAreOlder, DraftsAreNew, Changed, Locked
<1>4. ChangesFit'
    BY VersionsCompare, VersionsAreNat DEF IInv, ChangesFit, DraftsAreNew, Changed, Locked
<1>5. SchemaIsPublished'
    BY VersionsCompare, VersionsAreNat DEF IInv, SchemaIsPublished, Changed, Locked
<1>6. SharesFit'
    BY VersionsCompare, VersionsAreNat DEF IInv, SharesFit, SchemaIsPublished, DraftsAreNew,
     Changed, Locked
<1>7. SharedIsCommitted'
    BY VersionsCompare, VersionsAreNat DEF IInv, SharedIsCommitted, SharesFit, Changed, Locked
<1>8. OwnAnswersFit'
    BY VersionsCompare, VersionsAreNat DEF IInv, OwnAnswersFit, ChangesFit, DraftsAreNew,
     SavepointsAreOlder, Changed, Locked
<1>9. OwnFits'
    BY VersionsCompare, VersionsAreNat DEF IInv, OwnFits, OwnAnswersFit, ChangesFit, DraftsAreNew,
     SavepointsAreOlder, Changed, Locked
<1>10. SharedIsFresh'
    BY VersionsCompare, VersionsAreNat DEF IInv, SharedIsFresh, SharesFit, DraftsAreNew,
     SavepointsAreOlder, Settled, Forgetting, ChangeIsOpen, Changed, Locked
<1> QED
  BY <1>1, <1>2, <1>3, <1>4, <1>5, <1>6, <1>7, <1>8, <1>9, <1>10 DEF IInv

\* A change that fails leaves a failed transaction, and one whose reply is lost is missed.
LEMMA ChangeFailsKeeps ==
    ASSUME IInv, NEW s \in Sessions, ChangeFails(s), UNCHANGED sharing
    PROVE  IInv'
<1> USE DEF TypeOK, HasDraft, At, Await, IdleCall, cluster, ChangeFails
<1>1. TypeOK'
  BY TypesKept DEF IInv, Next
<1>2. ASSUME Refused(s)
      PROVE  \E version \in saved[s] \cup {NoDraft} :
                /\ \A v \in saved[s] : v <= version
                /\ draft' = [draft EXCEPT ![s] = version]
                /\ version <= draft[s] /\ version \in Int
                /\ version # NoDraft => version > schema /\ HasDraft(s)
  <2>1. PICK version \in saved[s] \cup {NoDraft} :
            /\ \A v \in saved[s] : v <= version
            /\ draft' = [draft EXCEPT ![s] = version]
    BY <1>2 DEF Refused
  <2>2. version <= draft[s] /\ version \in Int /\ (version # NoDraft => version > schema /\ HasDraft(s))
    BY <2>1, VersionsCompare, VersionsAreNat DEF IInv, SavepointsAreOlder
  <2> QED
    BY <2>1, <2>2
<1>3. DraftsAreNew'
  <2>1. CASE UNCHANGED <<cluster, missed>>
      BY VersionsCompare, VersionsAreNat, <2>1 DEF IInv, DraftsAreNew, SavepointsAreOlder, ChangesFit
  <2>2. CASE Refused(s) /\ UNCHANGED missed
      BY VersionsCompare, VersionsAreNat, <1>2, <2>2 DEF IInv, DraftsAreNew, SavepointsAreOlder,
       ChangesFit, Refused
  <2>3. CASE Changed(s) /\ missed' = TRUE
      BY VersionsCompare, VersionsAreNat, <2>3 DEF IInv, DraftsAreNew, SavepointsAreOlder, ChangesFit,
       Changed, Locked
  <2> QED
    BY <2>1, <2>2, <2>3
<1>4. SavepointsAreOlder'
  <2>1. CASE UNCHANGED <<cluster, missed>>
      BY VersionsCompare, VersionsAreNat, <2>1 DEF IInv, SavepointsAreOlder, DraftsAreNew
  <2>2. CASE Refused(s) /\ UNCHANGED missed
    <3>1. PICK back \in Int :
              /\ \A v \in saved[s] : v <= back
              /\ draft' = [draft EXCEPT ![s] = back]
      BY <1>2, <2>2
    <3>2. draft'[s] = back /\ (\A t \in Sessions \ {s} : draft'[t] = draft[t])
          /\ UNCHANGED <<saved, schema>>
      BY <2>2, <3>1 DEF IInv, Refused
    <3> QED
      BY <3>1, <3>2 DEF IInv, SavepointsAreOlder
  <2>3. CASE Changed(s) /\ missed' = TRUE
      BY VersionsCompare, VersionsAreNat, <2>3 DEF IInv, SavepointsAreOlder, DraftsAreNew, Changed,
       Locked
  <2> QED
    BY <2>1, <2>2, <2>3
<1>5. ChangesFit'
  <2>1. CASE UNCHANGED <<cluster, missed>>
      BY VersionsCompare, VersionsAreNat, <2>1 DEF IInv, ChangesFit, DraftsAreNew
  <2>2. CASE Refused(s) /\ UNCHANGED missed
      BY VersionsCompare, VersionsAreNat, <1>2, <2>2 DEF IInv, ChangesFit, DraftsAreNew, Refused
  <2>3. CASE Changed(s) /\ missed' = TRUE
      BY VersionsCompare, VersionsAreNat, <2>3 DEF IInv, ChangesFit, DraftsAreNew, Changed, Locked
  <2> QED
    BY <2>1, <2>2, <2>3
<1>6. SchemaIsPublished'
  <2>1. CASE UNCHANGED <<cluster, missed>>
      BY VersionsCompare, VersionsAreNat, <2>1 DEF IInv, SchemaIsPublished
  <2>2. CASE Refused(s) /\ UNCHANGED missed
      BY VersionsCompare, VersionsAreNat, <1>2, <2>2 DEF IInv, SchemaIsPublished, Refused
  <2>3. CASE Changed(s) /\ missed' = TRUE
      BY VersionsCompare, VersionsAreNat, <2>3 DEF IInv, SchemaIsPublished, Changed, Locked
  <2> QED
    BY <2>1, <2>2, <2>3
<1>7. SharesFit'
  <2>1. CASE UNCHANGED <<cluster, missed>>
      BY VersionsCompare, VersionsAreNat, <2>1 DEF IInv, SharesFit, SchemaIsPublished, DraftsAreNew
  <2>2. CASE Refused(s) /\ UNCHANGED missed
      BY VersionsCompare, VersionsAreNat, <1>2, <2>2 DEF IInv, SharesFit, SchemaIsPublished,
       DraftsAreNew, Refused
  <2>3. CASE Changed(s) /\ missed' = TRUE
      BY VersionsCompare, VersionsAreNat, <2>3 DEF IInv, SharesFit, SchemaIsPublished, DraftsAreNew,
       Changed, Locked
  <2> QED
    BY <2>1, <2>2, <2>3
<1>8. SharedIsCommitted'
  <2>1. CASE UNCHANGED <<cluster, missed>>
      BY VersionsCompare, VersionsAreNat, <2>1 DEF IInv, SharedIsCommitted, SharesFit
  <2>2. CASE Refused(s) /\ UNCHANGED missed
      BY VersionsCompare, VersionsAreNat, <1>2, <2>2 DEF IInv, SharedIsCommitted, SharesFit, Refused
  <2>3. CASE Changed(s) /\ missed' = TRUE
      BY VersionsCompare, VersionsAreNat, <2>3 DEF IInv, SharedIsCommitted, SharesFit, Changed, Locked
  <2> QED
    BY <2>1, <2>2, <2>3
<1>9. OwnAnswersFit'
  <2>1. CASE UNCHANGED <<cluster, missed>>
      BY VersionsCompare, VersionsAreNat, <2>1 DEF IInv, OwnAnswersFit, ChangesFit, DraftsAreNew,
       SavepointsAreOlder
  <2>2. CASE Refused(s) /\ UNCHANGED missed
      BY VersionsCompare, VersionsAreNat, <1>2, <2>2 DEF IInv, OwnAnswersFit, ChangesFit,
       DraftsAreNew, SavepointsAreOlder, Refused
  <2>3. CASE Changed(s) /\ missed' = TRUE
      BY VersionsCompare, VersionsAreNat, <2>3 DEF IInv, OwnAnswersFit, ChangesFit, DraftsAreNew,
       SavepointsAreOlder, Changed, Locked
  <2> QED
    BY <2>1, <2>2, <2>3
<1>10. OwnFits'
  <2>1. CASE UNCHANGED <<cluster, missed>>
      BY VersionsCompare, VersionsAreNat, <2>1 DEF IInv, OwnFits, OwnAnswersFit, ChangesFit,
       DraftsAreNew, SavepointsAreOlder
  <2>2. CASE Refused(s) /\ UNCHANGED missed
      BY VersionsCompare, VersionsAreNat, <1>2, <2>2 DEF IInv, OwnFits, OwnAnswersFit, ChangesFit,
       DraftsAreNew, SavepointsAreOlder, Refused
  <2>3. CASE Changed(s) /\ missed' = TRUE
    <3>1. (\A t \in Sessions : failed'[t] \/ draft'[t] = draft[t])
          /\ (\A t \in Sessions : ~failed'[t] /\ failed[t] => draft[t] = NoDraft)
          /\ UNCHANGED <<own, lastChange>>
      BY <2>3 DEF IInv, DraftsAreNew, Changed
    <3>2. ASSUME NEW t \in Sessions, NEW text \in DOMAIN own[t]
          PROVE  own[t][text] >= NoDraft
      BY VersionsCompare, VersionsAreNat DEF IInv
    <3>3. \A t \in Sessions : At(t, "forget")' <=> At(t, "forget") /\ t # s
      BY DEF IInv
    <3>4. \A t \in Sessions : At(t, "forget") => t # s
      OBVIOUS
    <3> QED
      BY <3>1, <3>2, <3>3, <3>4 DEF IInv, OwnFits
  <2> QED
    BY <2>1, <2>2, <2>3
<1>11. SharedIsFresh'
  <2>1. CASE UNCHANGED <<cluster, missed>>
      BY VersionsCompare, VersionsAreNat, <2>1 DEF IInv, SharedIsFresh, SharesFit, DraftsAreNew,
       SavepointsAreOlder, Settled, Forgetting, ChangeIsOpen
  <2>2. CASE Refused(s) /\ UNCHANGED missed
      BY VersionsCompare, VersionsAreNat, <1>2, <2>2 DEF IInv, SharedIsFresh, SharesFit, DraftsAreNew,
       SavepointsAreOlder, Settled, Forgetting, ChangeIsOpen, Refused
  <2>3. CASE Changed(s) /\ missed' = TRUE
      BY VersionsCompare, VersionsAreNat, <2>3 DEF IInv, SharedIsFresh, SharesFit, DraftsAreNew,
       SavepointsAreOlder, Settled, Forgetting, ChangeIsOpen, Changed, Locked
  <2> QED
    BY <2>1, <2>2, <2>3
<1> QED
  BY <1>1, <1>3, <1>4, <1>5, <1>6, <1>7, <1>8, <1>9, <1>10, <1>11 DEF IInv

\* Forgetting empties both maps and makes every answer under way late.
LEMMA ForgetShapesKeeps ==
    ASSUME IInv, NEW s \in Sessions, ForgetShapes(s), UNCHANGED sharing
    PROVE  IInv'
<1> USE DEF TypeOK, HasDraft, At, Await, IdleCall, cluster, ForgetShapes
<1>1. TypeOK'
  BY TypesKept DEF IInv, Next
<1>2. DraftsAreNew'
    BY VersionsCompare, VersionsAreNat, CallFields DEF IInv, DraftsAreNew, SavepointsAreOlder,
     ChangesFit, MarkedLate, Nothing
<1>3. SavepointsAreOlder'
    BY VersionsCompare, VersionsAreNat, CallFields DEF IInv, SavepointsAreOlder, DraftsAreNew,
     MarkedLate, Nothing
<1>4. ChangesFit'
    BY VersionsCompare, VersionsAreNat, CallFields DEF IInv, ChangesFit, DraftsAreNew, MarkedLate,
     Nothing
<1>5. SchemaIsPublished'
    BY VersionsCompare, VersionsAreNat, CallFields DEF IInv, SchemaIsPublished, MarkedLate, Nothing
<1>6. SharesFit'
    BY VersionsCompare, VersionsAreNat, CallFields DEF IInv, SharesFit, SchemaIsPublished,
     DraftsAreNew, MarkedLate, Nothing
<1>7. SharedIsCommitted'
    BY VersionsCompare, VersionsAreNat, CallFields DEF IInv, SharedIsCommitted, SharesFit,
     MarkedLate, Nothing
<1>8. OwnAnswersFit'
    BY VersionsCompare, VersionsAreNat, CallFields DEF IInv, OwnAnswersFit, ChangesFit,
     DraftsAreNew, SavepointsAreOlder, MarkedLate, Nothing
<1>9. OwnFits'
    BY VersionsCompare, VersionsAreNat, CallFields DEF IInv, OwnFits, OwnAnswersFit, ChangesFit,
     DraftsAreNew, SavepointsAreOlder, MarkedLate, Nothing
<1>10. SharedIsFresh'
    BY VersionsCompare, VersionsAreNat, CallFields DEF IInv, SharedIsFresh, SharesFit, DraftsAreNew,
     SavepointsAreOlder, Settled, Forgetting, ChangeIsOpen, MarkedLate, Nothing
<1> QED
  BY <1>1, <1>2, <1>3, <1>4, <1>5, <1>6, <1>7, <1>8, <1>9, <1>10 DEF IInv

LEMMA InvariantKept == IInv /\ [Next]_vars => IInv'
<1> SUFFICES ASSUME IInv, [Next]_vars PROVE IInv'
  OBVIOUS
<1>1. CASE UNCHANGED vars
  BY <1>1 DEF vars, cluster, IInv, TypeOK, DraftsAreNew, SavepointsAreOlder, ChangesFit, SchemaIsPublished,
     SharesFit, SharedIsCommitted, OwnAnswersFit, OwnFits, SharedIsFresh, HasDraft, Settled, Forgetting,
     ChangeIsOpen, At
<1>2. CASE Next
  BY <1>2, BeginKeeps, CommitKeeps, RollbackKeeps, SavepointKeeps, RollbackToKeeps,
     ExpireKeeps, ReconnectKeeps, DescribeKeeps,
     ProbeRunsKeeps, ProbeFailsKeeps, CacheShapeKeeps, ChangeKeeps, ChangeRunsKeeps,
     ChangeFailsKeeps, ForgetShapesKeeps DEF Next
<1> QED
  BY <1>1, <1>2

\* The inductive invariant holds throughout.
THEOREM StoreInvariant == Spec => []IInv
BY InvariantStarts, InvariantKept, PTL DEF Spec

-----------------------------------------------------------------------------
(* What follows from it                                                    *)

\* Nothing is in the shared map but what everyone saw at some time: no draft, and
\* no change that was undone (probe.rs:150-168).
THEOREM OnlyCommittedIsShared == Spec => []SharedIsCommitted
BY StoreInvariant, PTL DEF IInv

\* A connection's own answers are never older than a change it made itself, as
\* long as it has heard of no error, for any number of connections, texts and
\* changes, savepoints and their rollbacks included (session.rs:341-357).
THEOREM OwnAnswersFollow == Spec => []OwnFollowsOwnChanges
<1>1. IInv => OwnFollowsOwnChanges
  BY DEF IInv, OwnFits, OwnFollowsOwnChanges, HasDraft
<1> QED
  BY <1>1, StoreInvariant, PTL

\* The shared map is stale after a race or a lost reply only, for any number
\* of connections, texts and changes (handlers.rs:158-163, session.rs:341-357).
THEOREM SharedIsStaleByRaceOrLoss == Spec => []StaleOnlyByRaceOrLoss
<1>1. IInv => StaleOnlyByRaceOrLoss
  BY DEF IInv, SharedIsFresh, StaleOnlyByRaceOrLoss, Settled
<1> QED
  BY <1>1, StoreInvariant, PTL

=============================================================================
