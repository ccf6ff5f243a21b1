------------------------- MODULE MediaService_proofs -------------------------
(***************************************************************************)
(* What MediaService promises follows from its steps: the two promises the *)
(* header of that module makes about the images, for any set of media.     *)
(*                                                                         *)
(* The modules that implement MediaService take these facts from here, by  *)
(* INSTANCE, with what they put in place of its variables.                 *)
(***************************************************************************)
EXTENDS MediaService, TLAPS

\* A stop is under way only for an active medium, and only the end of the node
\* leaves the service in the state Ended.
Discipline ==
    /\ publishing \subseteq Audible
    /\ serving = Ended => active = {}

LEMMA DisciplineInit == Init => Discipline
BY DEF Init, Discipline, Idle, Ended

LEMMA DisciplineNext == Discipline /\ [Next]_vars => Discipline'
<1> SUFFICES ASSUME Discipline, [Next]_vars PROVE Discipline'
    OBVIOUS
<1> USE DEF Discipline, Audible, Idle, Ended, Serve
<1>1. ASSUME NEW m \in Media, Refuse(m) PROVE Discipline'
    BY <1>1 DEF Refuse
<1>2. ASSUME NEW m \in Media, NEW op \in {"start", "stop", "feature"}, Begin(op, m)
      PROVE  Discipline'
    BY <1>2 DEF Begin
<1>3. ASSUME NEW m \in Media, Started(m) PROVE Discipline'
    BY <1>3 DEF Started
<1>4. ASSUME NEW m \in Media, Stopped(m) PROVE Discipline'
    BY <1>4 DEF Stopped
<1>5. ASSUME NEW m \in Media, FeatureSet(m) PROVE Discipline'
    BY <1>5 DEF FeatureSet
<1>6. CASE Shutdown
    BY <1>6 DEF Shutdown
<1>7. ASSUME NEW m \in Media, EndStream(m) PROVE Discipline'
    BY <1>7 DEF EndStream
<1>8. CASE End
    BY <1>8 DEF End
<1>9. ASSUME NEW m \in Media, PublishBegins(m) PROVE Discipline'
    BY <1>9 DEF PublishBegins
<1>10. ASSUME NEW m \in Media, PublishEnds(m) PROVE Discipline'
    BY <1>10 DEF PublishEnds
<1>11. CASE UNCHANGED vars
    BY <1>11 DEF vars
<1> QED
    BY <1>1, <1>2, <1>3, <1>4, <1>5, <1>6, <1>7, <1>8, <1>9, <1>10, <1>11 DEF Next

\* No medium publishes before its start is being served, nor after its stop has
\* been answered.
OnlyAudiblePublish == publishing \subseteq Audible

\* When the node has ended, every stream has ended and nothing is published.
EndsSilent == serving = Ended => active = {} /\ publishing = {}

\* The service publishes only what has been started and not yet been stopped.
THEOREM AudiblePublish == Spec => []OnlyAudiblePublish
<1>1. Discipline => OnlyAudiblePublish
    BY DEF Discipline, OnlyAudiblePublish
<1> QED
    BY <1>1, DisciplineInit, DisciplineNext, PTL DEF Spec

\* The service ends with every stream ended.
THEOREM SilentEnd == Spec => []EndsSilent
<1>1. Discipline => EndsSilent
    BY DEF Discipline, EndsSilent, Audible, Ended
<1> QED
    BY <1>1, DisciplineInit, DisciplineNext, PTL DEF Spec
=============================================================================
