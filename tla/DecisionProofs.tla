--------------------------- MODULE DecisionProofs ---------------------------
(***************************************************************************)
(* What one request or message comes to, for every value of the constants:   *)
(* the signed log and the version bumps of change control, a run of deep     *)
(* thinking, and a call of the model pipeline.                               *)
(***************************************************************************)
EXTENDS ChangeControl, DeepThink, ModelPipeline, WellFoundedInduction, FiniteSetTheorems, TLAPS

-----------------------------------------------------------------------------
(* Change control: signatures.                                              *)

\* A signature is a signature, and its length tells the position of its event.
LEMMA SignLength ==
    ASSUME NEW core \in Core, NEW prev \in Signatures
    PROVE  /\ Sign(core, prev) \in Signatures
           /\ Len(Sign(core, prev)) = Len(prev) + 1
  BY DEF Sign, Signatures

\* Two contents signed on top of one signature differ in their signatures: the
\* model's form of SHA-256 having no collisions.
LEMMA SignInjective ==
    ASSUME NEW core \in Core, NEW other \in Core, NEW prev \in Signatures,
           Sign(core, prev) = Sign(other, prev)
    PROVE  core = other
  <1>1. Sign(core, prev)[Len(prev) + 1] = core
    BY DEF Sign, Signatures
  <1>2. Sign(other, prev)[Len(prev) + 1] = other
    BY DEF Sign, Signatures
  <1> QED
    BY <1>1, <1>2

\* What record_audit_event puts in a log is content of the declared kind.
LEMMA SafeCoreIsCore == SafeCore \in Core
  BY DEF SafeCore, Core, Decisions

LEMMA ChangeCoreIsCore ==
    ASSUME NEW req \in Requests, Verdict(req) = "OK"
    PROVE  ChangeCore(req) \in Core
  <1>1. req.type \in ChangeTypes
    BY RequestsAreTyped DEF RequestType, Verdict
  <1> QED
    BY <1>1, CoresAreTyped DEF ChangeCore, Core, Decisions

-----------------------------------------------------------------------------
(* The inductive invariant: every event hangs on the one before it, its signature *)
(* is over what was appended, whatever has been written into it since, and is as  *)
(* long as its position.                                                          *)

Chained ==
    /\ Len(log) = Len(recorded)
    /\ \A i \in DOMAIN log :
           /\ log[i].prev = Expected(i)
           /\ log[i].sig = Sign(recorded[i], log[i].prev)
           /\ Len(log[i].sig) = i

Receipted ==
    last # NoDecision /\ last.reason = "OK" /\ last.store = "up" =>
        Len(log) > 0 /\ last.receipt = log[Len(log)].sig

\* The decision answered is the verdict on its request.
Judged ==
    last # NoDecision => last.req \in Requests /\ last.reason = Verdict(last.req)

Inv == TypeOK /\ Chained /\ Receipted /\ Judged

LEMMA InitInv == Init => Inv
  BY DEF Init, Inv, TypeOK, Chained, Receipted, Judged, Signatures

\* The signature a new event is chained to.
LEMMA LastSignatureType ==
    ASSUME Inv
    PROVE  LastSignature \in Signatures /\ Len(LastSignature) = Len(log)
  <1>1. CASE log = <<>>
    BY <1>1 DEF LastSignature, Signatures
  <1>2. CASE log # <<>>
    <2>1. log \in Seq(Events) /\ Len(log) \in DOMAIN log
      BY <1>2 DEF Inv, TypeOK
    <2>2. log[Len(log)] \in Events
      BY <2>1
    <2> QED
      BY <1>2, <2>1, <2>2 DEF LastSignature, Inv, Chained, Events
  <1> QED
    BY <1>1, <1>2

\* The event record_audit_event makes, and the signature it answers.
LEMMA TriedType ==
    ASSUME Inv, NEW core \in Core, NEW clock, NEW store
    PROVE  /\ Tried(core, clock, store) \in Events
           /\ Receipt(core, clock, store) \in Signatures
           /\ store = "up" => /\ Tried(core, clock, store).prev = LastSignature
                              /\ Tried(core, clock, store).sig =
                                     Sign(Tried(core, clock, store).core, LastSignature)
  <1> DEFINE c == IF clock = "good" /\ store = "up" THEN core ELSE SafeCore
             p == IF store = "absent" THEN <<>> ELSE LastSignature
  <1>1. c \in Core
    BY SafeCoreIsCore
  <1>2. p \in Signatures
    BY LastSignatureType DEF Signatures
  <1>3. Sign(c, p) \in Signatures
    BY <1>1, <1>2, SignLength
  <1>4. Tried(core, clock, store) = [core |-> c, prev |-> p, sig |-> Sign(c, p)]
    BY DEF Tried, SignedEvent
  <1>5. Tried(core, clock, store) \in Events
    BY <1>1, <1>2, <1>3, <1>4 DEF Events
  <1>6. Receipt(core, clock, store) \in Signatures
    BY <1>3, <1>4 DEF Receipt, HardcodedSignature, Signatures
  <1> QED
    BY <1>4, <1>5, <1>6

\* Recording an event keeps the types and the chain.
LEMMA RecordedKeepsChain ==
    ASSUME Inv, NEW core \in Core, NEW clock, NEW store,
           Recorded(core, clock, store)
    PROVE  /\ log' \in Seq(Events) /\ recorded' \in Seq(Core)
           /\ Chained'
           /\ store = "up" => /\ Len(log') > 0
                              /\ log'[Len(log')].sig = Receipt(core, clock, store)
  <1> DEFINE event == Tried(core, clock, store)
  <1>1. CASE store # "up"
    BY <1>1 DEF Recorded, auditVars, Inv, TypeOK, Chained, Expected
  <1>2. CASE store = "up"
    <2>1. log' = Append(log, event) /\ recorded' = Append(recorded, event.core)
      BY <1>2 DEF Recorded
    <2>2. event \in Events /\ event.core \in Core
      BY TriedType DEF Events
    <2>3. log \in Seq(Events) /\ recorded \in Seq(Core) /\ Len(log) = Len(recorded)
      BY DEF Inv, TypeOK, Chained
    <2>4. log' \in Seq(Events) /\ recorded' \in Seq(Core)
          /\ Len(log') = Len(log) + 1 /\ Len(recorded') = Len(log) + 1
      BY <2>1, <2>2, <2>3
    <2>5. ASSUME NEW i \in DOMAIN log
          PROVE  log'[i] = log[i] /\ recorded'[i] = recorded[i] /\ Expected(i)' = Expected(i)
      BY <2>1, <2>2, <2>3 DEF Expected
    <2>6. log'[Len(log) + 1] = event /\ recorded'[Len(log) + 1] = event.core
      BY <2>1, <2>2, <2>3
    <2>7. ASSUME NEW i, i = Len(log) + 1
          PROVE  Expected(i)' = LastSignature
      <3>1. CASE log = <<>>
        BY <2>7, <3>1 DEF Expected, LastSignature
      <3>2. CASE log # <<>>
        BY <2>1, <2>2, <2>3, <2>7, <3>2 DEF Expected, LastSignature
      <3> QED
        BY <3>1, <3>2
    <2>8. event.prev = LastSignature /\ event.sig = Sign(event.core, LastSignature)
      BY <1>2, TriedType
    <2>9. Len(event.sig) = Len(log) + 1
      BY <2>2, <2>8, LastSignatureType, SignLength
    <2>10. ASSUME NEW i \in DOMAIN log'
           PROVE  /\ log'[i].prev = Expected(i)'
                  /\ log'[i].sig = Sign(recorded'[i], log'[i].prev)
                  /\ Len(log'[i].sig) = i
      <3>1. i \in DOMAIN log \/ i = Len(log) + 1
        BY <2>3, <2>4
      <3>2. CASE i \in DOMAIN log
        BY <3>2, <2>5 DEF Inv, Chained
      <3>3. CASE i = Len(log) + 1
        BY <3>3, <2>6, <2>7, <2>8, <2>9
      <3> QED
        BY <3>1, <3>2, <3>3
    <2>11. Chained'
      BY <2>4, <2>10 DEF Chained, Sign
    <2>12. Receipt(core, clock, store) = event.sig
      BY <1>2 DEF Receipt
    <2> QED
      BY <2>3, <2>4, <2>6, <2>11, <2>12
  <1> QED
    BY <1>1, <1>2

\* Writing into a struct_meta changes no link, no signature and no record.
LEMMA AlterKeepsChain ==
    ASSUME Inv, NEW i \in DOMAIN log, NEW meta \in Edits, Alter(i, meta)
    PROVE  /\ log' \in Seq(Events) /\ recorded' \in Seq(Core)
           /\ Chained'
  <1> DEFINE changed == [log[i] EXCEPT !.core = [log[i].core EXCEPT !.meta = meta]]
  <1>1. log \in Seq(Events) /\ log' = [log EXCEPT ![i] = changed] /\ recorded' = recorded
    BY DEF Alter, Inv, TypeOK
  <1>2. log[i] \in Events
    BY <1>1
  <1>3. changed \in Events /\ changed.prev = log[i].prev /\ changed.sig = log[i].sig
    BY <1>2 DEF Events, Core
  <1>4. log' \in Seq(Events) /\ Len(log') = Len(log) /\ DOMAIN log' = DOMAIN log
    BY <1>1, <1>3
  <1>5. \A j \in DOMAIN log : log'[j].prev = log[j].prev /\ log'[j].sig = log[j].sig
    BY <1>1, <1>3
  <1>6. \A j \in DOMAIN log : Expected(j)' = Expected(j)
    BY <1>1, <1>4, <1>5 DEF Expected
  <1>7. Chained'
    BY <1>1, <1>4, <1>5, <1>6 DEF Inv, Chained, Sign
  <1> QED
    BY <1>1, <1>4, <1>7 DEF Inv, TypeOK

LEMMA NextInv == Inv /\ [Next]_vars => Inv'
  <1> SUFFICES ASSUME Inv, [Next]_vars
               PROVE  Inv'
    OBVIOUS
  <1>1. ASSUME NEW req \in Requests, Refuse(req)
        PROVE  Inv'
    <2>1. Verdict(req) \in Reasons
      BY DEF Verdict, Reasons
    <2>2. last' \in ChangeDecision /\ last'.reason # "OK"
      BY <1>1, <2>1 DEF Refuse, ChangeDecision, Stores, Signatures
    <2> QED
      BY <1>1, <2>2 DEF Refuse, auditVars, Inv, TypeOK, Chained, Receipted, Judged, Expected
  <1>2. ASSUME NEW req \in Requests, NEW store \in Stores, Allow(req, store)
        PROVE  Inv'
    <2>1. ChangeCore(req) \in Core /\ Recorded(ChangeCore(req), req.clock, store)
      BY <1>2, ChangeCoreIsCore DEF Allow
    <2>2. last' \in ChangeDecision
      BY <1>2, <2>1, TriedType DEF Allow, ChangeDecision, Reasons
    <2>3. last'.store = store
          /\ last'.receipt = Receipt(ChangeCore(req), req.clock, store)
      BY <1>2 DEF Allow
    <2>4. TypeOK' /\ Chained'
      BY <2>1, <2>2, RecordedKeepsChain DEF TypeOK
    <2>5. Receipted'
      BY <2>1, <2>3, RecordedKeepsChain DEF Receipted
    <2>6. Judged'
      BY <1>2 DEF Allow, Judged
    <2> QED
      BY <2>4, <2>5, <2>6 DEF Inv
  <1>3. ASSUME OtherEvent
        PROVE  Inv'
    <2>1. PICK core \in OtherCores, clock \in Clocks, store \in Stores :
              Record(core, clock, store)
      BY <1>3 DEF OtherEvent
    <2>2. TypeOK' /\ Chained'
      BY <1>3, <2>1, RecordedKeepsChain, CoresAreTyped DEF OtherEvent, Record, TypeOK
    <2> QED
      BY <1>3, <2>2 DEF OtherEvent, Inv, Receipted, Judged
  <1>4. ASSUME AlteredEvent
        PROVE  Inv'
    <2>1. PICK i \in DOMAIN log, meta \in Edits : Alter(i, meta)
      BY <1>4 DEF AlteredEvent
    <2>2. TypeOK' /\ Chained'
      BY <1>4, <2>1, AlterKeepsChain DEF AlteredEvent, TypeOK
    <2> QED
      BY <1>4, <2>2 DEF AlteredEvent, Inv, Receipted, Judged
  <1>5. CASE UNCHANGED vars
    BY <1>5 DEF vars, Inv, TypeOK, Chained, Receipted, Judged, Expected
  <1> QED
    BY <1>1, <1>2, <1>3, <1>4, <1>5 DEF Next
-----------------------------------------------------------------------------
(* Theorems *)

\* The log, what was appended to it and the last decision keep their types.
THEOREM TypeCorrect == Spec => []TypeOK
  <1>1. Inv => TypeOK
    BY DEF Inv
  <1> QED
    BY <1>1, InitInv, NextInv, PTL DEF Spec

\* An event is bad to verify_chain exactly when its content has been changed: no
\* change of an earlier event, and nothing appended since, makes it look bad.
LEMMA BadIsEdited ==
    ASSUME Inv, NEW i \in DOMAIN log
    PROVE  Bad(i) <=> log[i].core # recorded[i]
  <1>1. log[i].core \in Core /\ log[i].prev \in Signatures /\ recorded[i] \in Core
    <2>1. log \in Seq(Events) /\ recorded \in Seq(Core) /\ Len(log) = Len(recorded)
      BY DEF Inv, TypeOK, Chained
    <2>2. log[i] \in Events
      BY <2>1
    <2>3. i \in DOMAIN recorded
      BY <2>1
    <2> QED
      BY <2>1, <2>2, <2>3 DEF Events
  <1>2. log[i].prev = Expected(i) /\ log[i].sig = Sign(recorded[i], log[i].prev)
    BY DEF Inv, Chained
  <1> QED
    BY <1>1, <1>2, SignInjective DEF Bad

\* verify_chain names the first changed event and only a changed event, for logs
\* of every length.
THEOREM VerifySound == Spec => []VerifyFindsFirstEdit
  <1>1. Inv => VerifyFindsFirstEdit
    <2> SUFFICES ASSUME Inv
                 PROVE  VerifyFindsFirstEdit
      OBVIOUS
    <2>1. {i \in DOMAIN log : Bad(i)} = {i \in DOMAIN log : log[i].core # recorded[i]}
      BY BadIsEdited
    <2> QED
      BY <2>1 DEF VerifyFindsFirstEdit, VerifyChain
  <1> QED
    BY <1>1, InitInv, NextInv, PTL DEF Spec

\* The receipt of an allowed change names one event of a working log, the last:
\* signatures grow with the chain, so no two events share one.
THEOREM ReceiptsAreUnique == Spec => []ReceiptNamesItsEvent
  <1>1. Inv => ReceiptNamesItsEvent
    <2> SUFFICES ASSUME Inv, last # NoDecision, last.reason = "OK", last.store = "up"
                 PROVE  {i \in DOMAIN log : log[i].sig = last.receipt} = {Len(log)}
      BY DEF ReceiptNamesItsEvent
    <2>1. Len(log) \in DOMAIN log /\ last.receipt = log[Len(log)].sig
      BY DEF Inv, TypeOK, Receipted
    <2>2. \A i \in DOMAIN log : Len(log[i].sig) = i
      BY DEF Inv, Chained
    <2>3. \A i \in DOMAIN log : log[i].sig = last.receipt <=> i = Len(log)
      BY <2>1, <2>2
    <2> QED
      BY <2>1, <2>3
  <1> QED
    BY <1>1, InitInv, NextInv, PTL DEF Spec

\* The three-way comparison of _compare_versions agrees with the growth of the
\* components a type of change is about, for all versions.
LEMMA BumpedIsGrown ==
    ASSUME NEW req \in Requests
    PROVE  Bumped(req) <=> /\ req.from # NoVersion
                           /\ req.to # NoVersion
                           /\ GrownAtLevel(req.type, req.from, req.to)
  <1>1. CASE req.from = NoVersion \/ req.to = NoVersion
    BY <1>1 DEF Bumped, Bump, MinBump
  <1>2. CASE req.from # NoVersion /\ req.to # NoVersion
    <2>1. req.from \in Nat \X Nat \X Nat /\ req.to \in Nat \X Nat \X Nat
      BY <1>2, VersionsAreTriples, RequestsAreTyped DEF RequestType
    <2>2. /\ req.from[1] \in Nat /\ req.from[2] \in Nat /\ req.from[3] \in Nat
          /\ req.to[1] \in Nat /\ req.to[2] \in Nat /\ req.to[3] \in Nat
      BY <2>1
    <2>3. CASE MinBump(req.type) = 2
      BY <1>2, <2>2, <2>3 DEF Bumped, Bump, Less, GrownAtLevel
    <2>4. CASE MinBump(req.type) = 1
      BY <1>2, <2>2, <2>4 DEF Bumped, Bump, Less, GrownAtLevel
    <2> QED
      BY <2>3, <2>4 DEF MinBump
  <1> QED
    BY <1>1, <1>2

\* A change is allowed only on a sufficient bump, and refused for its versions
\* only without one.
THEOREM BumpsAreEnough == Spec => []BumpIsEnough
  <1>1. Inv => BumpIsEnough
    <2> SUFFICES ASSUME Inv, last # NoDecision
                 PROVE  BumpIsEnough
      BY DEF BumpIsEnough
    <2>1. last.req \in Requests /\ last.reason = Verdict(last.req)
      BY DEF Inv, Judged
    <2>2. /\ last.reason = "OK" => Bumped(last.req)
          /\ last.reason = "VERSION_NOT_BUMPED" => ~Bumped(last.req)
      BY <2>1 DEF Verdict
    <2> QED
      BY <2>1, <2>2, BumpedIsGrown DEF BumpIsEnough
  <1> QED
    BY <1>1, InitInv, NextInv, PTL DEF Spec

-----------------------------------------------------------------------------
(* Deep thinking: sums.                                                      *)

LEMMA LessWF ==
  \E R : IsWellFoundedOn(R, Nat) /\ \A x, y \in Nat : <<y, x>> \in R <=> y < x
<1>. WITNESS OpToRel(<, Nat)
<1>1. \A x, y \in Nat : <<y, x>> \in OpToRel(<, Nat) <=> y < x
  BY DEF OpToRel
<1>. QED  BY <1>1, NatLessThanWellFounded

\* Least is the least member of a set of natural numbers.
LEMMA LeastIs ==
  ASSUME NEW T \in SUBSET Nat, T # {}
  PROVE  Least(T) \in T /\ \A m \in T : Least(T) <= m
<1>1. PICK R : IsWellFoundedOn(R, Nat) /\ \A x, y \in Nat : <<y, x>> \in R <=> y < x
  BY LessWF
<1>2. PICK n \in T : \A m \in T : ~(<<m, n>> \in R)
  BY <1>1, WFMin
<1>3. \A m \in T : ~(m < n)
  BY <1>1, <1>2
<1>4. \A m \in T : n <= m
  BY <1>3
<1>. QED  BY <1>4 DEF Least

LEMMA SetInduction ==
  ASSUME NEW S, 0 \in S, \A n \in Nat : n \in S => n + 1 \in S
  PROVE  Nat \subseteq S
<1>. SUFFICES ASSUME Nat \ S # {} PROVE FALSE
  OBVIOUS
<1>1. PICK n \in Nat \ S : \A m \in Nat \ S : n <= m
  <2>1. Nat \ S \in SUBSET Nat
    OBVIOUS
  <2>. QED  BY <2>1, LeastIs
<1>2. n # 0 /\ n - 1 \in Nat
  BY <1>1
<1>3. n - 1 + 1 \in S
  BY <1>1, <1>2
<1>. QED  BY <1>1, <1>2, <1>3

\* f gives the sums of the first numbers of s, up to k of them.
Sums(f, s, k) == f = [n \in 0..k |-> IF n = 0 THEN 0 ELSE f[n - 1] + s[n]]

LEMMA SumsExist ==
  ASSUME NEW s
  PROVE  \A k \in Nat : \E f : Sums(f, s, k)
<1>. DEFINE S == {k \in Nat : \E f : Sums(f, s, k)}
<1>1. 0 \in S
  <2>. DEFINE f == [n \in 0..0 |-> 0]
  <2>1. f = [n \in 0..0 |-> IF n = 0 THEN 0 ELSE f[n - 1] + s[n]]
    OBVIOUS
  <2>. QED  BY <2>1 DEF Sums
<1>2. ASSUME NEW k \in Nat, k \in S PROVE k + 1 \in S
  <2>1. PICK f : Sums(f, s, k)
    BY <1>2
  <2>. DEFINE g == [n \in 0..(k + 1) |-> IF n = k + 1 THEN f[k] + s[n] ELSE f[n]]
  <2>2. ASSUME NEW n \in 0..(k + 1)
        PROVE  g[n] = IF n = 0 THEN 0 ELSE g[n - 1] + s[n]
    <3>1. CASE n = k + 1
      <4>1. n - 1 = k /\ n # 0 /\ k \in 0..(k + 1) /\ k # k + 1
        BY <3>1
      <4>. QED  BY <3>1, <4>1
    <3>2. CASE n = 0
      BY <3>2, <2>1 DEF Sums
    <3>3. CASE n # 0 /\ n # k + 1
      <4>1. n \in 0..k /\ n - 1 \in 0..(k + 1) /\ n - 1 # k + 1
        BY <3>3
      <4>2. f[n] = f[n - 1] + s[n]
        BY <2>1, <3>3, <4>1 DEF Sums
      <4>. QED  BY <3>3, <4>1, <4>2
    <3>. QED  BY <3>1, <3>2, <3>3
  <2>3. Sums(g, s, k + 1)
    BY <2>2 DEF Sums
  <2>. QED  BY <2>3
<1>3. Nat \subseteq S
  <2>. HIDE DEF S
  <2>. QED  BY <1>1, <1>2, SetInduction
<1>. QED  BY <1>3

SumsOf(s) == CHOOSE f : Sums(f, s, Len(s))

\* Total(s) is the last of the sums, each of which adds one number.
LEMMA TotalSteps ==
  ASSUME NEW s \in Seq(Int)
  PROVE  /\ SumsOf(s)[0] = 0
         /\ \A n \in 1..Len(s) : SumsOf(s)[n] = SumsOf(s)[n - 1] + s[n]
         /\ Total(s) = SumsOf(s)[Len(s)]
<1>1. Len(s) \in Nat
  OBVIOUS
<1>2. Sums(SumsOf(s), s, Len(s))
  BY <1>1, SumsExist DEF SumsOf
<1>3. SumsOf(s) = CHOOSE f : f = [n \in 0..Len(s) |-> IF n = 0 THEN 0 ELSE f[n - 1] + s[n]]
  BY DEF SumsOf, Sums
<1>4. Total(s) = SumsOf(s)[Len(s)]
  BY <1>3 DEF Total
<1>. QED  BY <1>1, <1>2, <1>4, SMTT(30) DEF Sums

\* Sequences that begin alike have the same sums so far.
LEMMA SamePast ==
  ASSUME NEW s \in Seq(Int), NEW t \in Seq(Int), Len(s) <= Len(t),
         \A n \in 1..Len(s) : t[n] = s[n]
  PROVE  \A n \in 0..Len(s) : SumsOf(t)[n] = SumsOf(s)[n]
<1>. DEFINE S == {n \in Nat : n <= Len(s) => SumsOf(t)[n] = SumsOf(s)[n]}
<1>1. 0 \in S
  BY TotalSteps
<1>2. ASSUME NEW n \in Nat, n \in S, n + 1 <= Len(s)
      PROVE  SumsOf(t)[n + 1] = SumsOf(s)[n + 1]
  <2>1. n + 1 \in 1..Len(s) /\ n + 1 \in 1..Len(t) /\ n + 1 - 1 = n /\ n <= Len(s)
    BY <1>2
  <2>. QED  BY <1>2, <2>1, TotalSteps
<1>3. \A n \in Nat : n \in S => n + 1 \in S
  BY <1>2
<1>4. Nat \subseteq S
  <2>. HIDE DEF S
  <2>. QED  BY <1>1, <1>3, SetInduction
<1>. QED  BY <1>4

\* A total is an integer.
LEMMA TotalIsInt ==
  ASSUME NEW s \in Seq(Int)
  PROVE  Total(s) \in Int
<1>. DEFINE S == {n \in Nat : n <= Len(s) => SumsOf(s)[n] \in Int}
<1>1. 0 \in S
  BY TotalSteps
<1>2. ASSUME NEW n \in Nat, n \in S, n + 1 <= Len(s)
      PROVE  SumsOf(s)[n + 1] \in Int
  <2>1. n + 1 \in 1..Len(s) /\ n + 1 - 1 = n /\ n <= Len(s)
    BY <1>2
  <2>2. s[n + 1] \in Int
    BY <2>1
  <2>. QED  BY <1>2, <2>1, <2>2, TotalSteps
<1>3. \A n \in Nat : n \in S => n + 1 \in S
  BY <1>2
<1>4. Nat \subseteq S
  <2>. HIDE DEF S
  <2>. QED  BY <1>1, <1>3, SetInduction
<1>. QED  BY <1>4, TotalSteps

\* One more number adds itself.
LEMMA TotalOfMore ==
  ASSUME NEW s \in Seq(Int), NEW t \in Seq(Int), NEW x \in Int,
         Len(t) = Len(s) + 1, t[Len(t)] = x, \A n \in 1..Len(s) : t[n] = s[n]
  PROVE  Total(t) = Total(s) + x
<1>1. SumsOf(t)[Len(s)] = SumsOf(s)[Len(s)]
  BY SamePast
<1>2. Len(t) \in 1..Len(t) /\ Len(t) - 1 = Len(s)
  OBVIOUS
<1>3. SumsOf(t)[Len(t)] = SumsOf(t)[Len(s)] + x
  BY <1>2, TotalSteps
<1>. QED  BY <1>1, <1>3, TotalSteps

\* A total of naturals is a natural.
LEMMA TotalIsNat ==
  ASSUME NEW s \in Seq(Nat)
  PROVE  Total(s) \in Nat
<1>. DEFINE S == {n \in Nat : n <= Len(s) => SumsOf(s)[n] \in Nat}
<1>0. s \in Seq(Int)
  OBVIOUS
<1>1. 0 \in S
  BY <1>0, TotalSteps
<1>2. ASSUME NEW n \in Nat, n \in S, n + 1 <= Len(s)
      PROVE  SumsOf(s)[n + 1] \in Nat
  <2>1. n + 1 \in 1..Len(s) /\ n + 1 - 1 = n /\ n <= Len(s)
    BY <1>2
  <2>2. s[n + 1] \in Nat
    BY <2>1
  <2>. QED  BY <1>0, <1>2, <2>1, <2>2, TotalSteps
<1>3. \A n \in Nat : n \in S => n + 1 \in S
  BY <1>2
<1>4. Nat \subseteq S
  <2>. HIDE DEF S
  <2>. QED  BY <1>1, <1>3, SetInduction
<1>. QED  BY <1>0, <1>4, TotalSteps

\* The totals of the lengths a plan can have.
LEMMA ShortTotals ==
  ASSUME NEW s \in Seq(Int)
  PROVE  /\ Len(s) = 0 => Total(s) = 0
         /\ Len(s) = 2 => Total(s) = s[1] + s[2]
         /\ Len(s) = 3 => Total(s) = s[1] + s[2] + s[3]
         /\ Len(s) = 4 => Total(s) = s[1] + s[2] + s[3] + s[4]
         /\ Len(s) = 5 => Total(s) = s[1] + s[2] + s[3] + s[4] + s[5]
<1>. DEFINE h == SumsOf(s)
<1>1. h[0] = 0 /\ Total(s) = h[Len(s)]
  BY TotalSteps
<1>2. \A n \in 1..Len(s) : h[n] = h[n - 1] + s[n] /\ s[n] \in Int
  BY TotalSteps
<1>. HIDE DEF h
<1>3. Len(s) >= 1 => h[1] = s[1] /\ s[1] \in Int
  BY <1>1, <1>2, 1 - 1 = 0
<1>4. Len(s) >= 2 => h[2] = s[1] + s[2] /\ s[2] \in Int
  BY <1>2, <1>3, 2 - 1 = 1
<1>5. Len(s) >= 3 => h[3] = s[1] + s[2] + s[3] /\ s[3] \in Int
  BY <1>2, <1>4, 3 - 1 = 2
<1>6. Len(s) >= 4 => h[4] = s[1] + s[2] + s[3] + s[4] /\ s[4] \in Int
  BY <1>2, <1>5, 4 - 1 = 3
<1>7. Len(s) >= 5 => h[5] = s[1] + s[2] + s[3] + s[4] + s[5] /\ s[5] \in Int
  BY <1>2, <1>6, 5 - 1 = 4
<1>8. Len(s) = 0 => Total(s) = 0
  BY <1>1
<1>9. Len(s) = 2 => Total(s) = s[1] + s[2]
  BY <1>1, <1>4
<1>10. Len(s) = 3 => Total(s) = s[1] + s[2] + s[3]
  BY <1>1, <1>5
<1>11. Len(s) = 4 => Total(s) = s[1] + s[2] + s[3] + s[4]
  BY <1>1, <1>6
<1>12. Len(s) = 5 => Total(s) = s[1] + s[2] + s[3] + s[4] + s[5]
  BY <1>1, <1>7
<1>. QED  BY <1>8, <1>9, <1>10, <1>11, <1>12

-----------------------------------------------------------------------------
(* Deep thinking: the shares of a plan.                                      *)

Raised(share, least) == IF share < least THEN least ELSE share

LEMMA TwoShares ==
  ASSUME NEW total \in Nat, NEW least \in Nat \ {0, 1}, total >= 2 * least,
         NEW rest \in Int, NEW q1 \in Int, NEW q2 \in Int,
         q1 = (30 * total) \div 50, q2 = (20 * total) \div 50,
         rest = total - (q1 + q2)
  PROVE  Raised(q1 + (rest + 2 - 1) \div 2, least)
            + Raised(q2 + (rest + 2 - 2) \div 2, least) <= total + least
  BY DEF Raised

LEMMA ThreeShares ==
  ASSUME NEW total \in Nat, NEW least \in Nat \ {0, 1}, total >= 3 * least,
         NEW rest \in Int, NEW q1 \in Int, NEW q2 \in Int, NEW q3 \in Int,
         q1 = (30 * total) \div 70, q2 = (20 * total) \div 70, q3 = (20 * total) \div 70,
         rest = total - (q1 + q2 + q3)
  PROVE  Raised(q1 + (rest + 3 - 1) \div 3, least)
            + Raised(q2 + (rest + 3 - 2) \div 3, least)
            + Raised(q3 + (rest + 3 - 3) \div 3, least) <= total + least
  BY DEF Raised

LEMMA FourShares ==
  ASSUME NEW total \in Nat, NEW least \in Nat \ {0, 1}, total >= 4 * least,
         NEW rest \in Int, NEW q1 \in Int, NEW q2 \in Int, NEW q3 \in Int, NEW q4 \in Int,
         q1 = (30 * total) \div 85, q2 = (20 * total) \div 85, q3 = (15 * total) \div 85, q4 = (20 * total) \div 85,
         rest = total - (q1 + q2 + q3 + q4)
  PROVE  Raised(q1 + (rest + 4 - 1) \div 4, least)
            + Raised(q2 + (rest + 4 - 2) \div 4, least)
            + Raised(q3 + (rest + 4 - 3) \div 4, least)
            + Raised(q4 + (rest + 4 - 4) \div 4, least) <= total + least
  BY DEF Raised

LEMMA FiveShares ==
  ASSUME NEW total \in Nat, NEW least \in Nat \ {0, 1}, total >= 5 * least,
         NEW rest \in Int, NEW q1 \in Int, NEW q2 \in Int, NEW q3 \in Int, NEW q4 \in Int, NEW q5 \in Int,
         q1 = (30 * total) \div 100, q2 = (20 * total) \div 100, q3 = (20 * total) \div 100, q4 = (15 * total) \div 100, q5 = (15 * total) \div 100,
         rest = total - (q1 + q2 + q3 + q4 + q5)
  PROVE  Raised(q1 + (rest + 5 - 1) \div 5, least)
            + Raised(q2 + (rest + 5 - 2) \div 5, least)
            + Raised(q3 + (rest + 5 - 3) \div 5, least)
            + Raised(q4 + (rest + 5 - 4) \div 5, least)
            + Raised(q5 + (rest + 5 - 5) \div 5, least) <= total + least
  BY DEF Raised

\* Shares that were not raised are what was dealt out, the total.
LEMMA TwoDealt ==
  ASSUME NEW total \in Nat, NEW least \in Nat \ {0, 1}, NEW rest \in Int,
         NEW q1 \in Int, NEW q2 \in Int,
         rest = total - (q1 + q2),
         Raised(q1 + (rest + 2 - 1) \div 2, least) > least,
         Raised(q2 + (rest + 2 - 2) \div 2, least) > least
  PROVE  Raised(q1 + (rest + 2 - 1) \div 2, least)
            + Raised(q2 + (rest + 2 - 2) \div 2, least) <= total
<1>1. /\ Raised(q1 + (rest + 2 - 1) \div 2, least) = q1 + (rest + 2 - 1) \div 2
      /\ Raised(q2 + (rest + 2 - 2) \div 2, least) = q2 + (rest + 2 - 2) \div 2
  BY DEF Raised
<1>2. (rest + 2 - 1) \div 2 + (rest + 2 - 2) \div 2 = rest
  OBVIOUS
<1>. QED  BY <1>1, <1>2

LEMMA ThreeDealt ==
  ASSUME NEW total \in Nat, NEW least \in Nat \ {0, 1}, NEW rest \in Int,
         NEW q1 \in Int, NEW q2 \in Int, NEW q3 \in Int,
         rest = total - (q1 + q2 + q3),
         Raised(q1 + (rest + 3 - 1) \div 3, least) > least,
         Raised(q2 + (rest + 3 - 2) \div 3, least) > least,
         Raised(q3 + (rest + 3 - 3) \div 3, least) > least
  PROVE  Raised(q1 + (rest + 3 - 1) \div 3, least)
            + Raised(q2 + (rest + 3 - 2) \div 3, least)
            + Raised(q3 + (rest + 3 - 3) \div 3, least) <= total
<1>1. /\ Raised(q1 + (rest + 3 - 1) \div 3, least) = q1 + (rest + 3 - 1) \div 3
      /\ Raised(q2 + (rest + 3 - 2) \div 3, least) = q2 + (rest + 3 - 2) \div 3
      /\ Raised(q3 + (rest + 3 - 3) \div 3, least) = q3 + (rest + 3 - 3) \div 3
  BY DEF Raised
<1>2. (rest + 3 - 1) \div 3 + (rest + 3 - 2) \div 3 + (rest + 3 - 3) \div 3 = rest
  OBVIOUS
<1>. QED  BY <1>1, <1>2

LEMMA FourDealt ==
  ASSUME NEW total \in Nat, NEW least \in Nat \ {0, 1}, NEW rest \in Int,
         NEW q1 \in Int, NEW q2 \in Int, NEW q3 \in Int, NEW q4 \in Int,
         rest = total - (q1 + q2 + q3 + q4),
         Raised(q1 + (rest + 4 - 1) \div 4, least) > least,
         Raised(q2 + (rest + 4 - 2) \div 4, least) > least,
         Raised(q3 + (rest + 4 - 3) \div 4, least) > least,
         Raised(q4 + (rest + 4 - 4) \div 4, least) > least
  PROVE  Raised(q1 + (rest + 4 - 1) \div 4, least)
            + Raised(q2 + (rest + 4 - 2) \div 4, least)
            + Raised(q3 + (rest + 4 - 3) \div 4, least)
            + Raised(q4 + (rest + 4 - 4) \div 4, least) <= total
<1>1. /\ Raised(q1 + (rest + 4 - 1) \div 4, least) = q1 + (rest + 4 - 1) \div 4
      /\ Raised(q2 + (rest + 4 - 2) \div 4, least) = q2 + (rest + 4 - 2) \div 4
      /\ Raised(q3 + (rest + 4 - 3) \div 4, least) = q3 + (rest + 4 - 3) \div 4
      /\ Raised(q4 + (rest + 4 - 4) \div 4, least) = q4 + (rest + 4 - 4) \div 4
  BY DEF Raised
<1>2. (rest + 4 - 1) \div 4 + (rest + 4 - 2) \div 4 + (rest + 4 - 3) \div 4 + (rest + 4 - 4) \div 4 = rest
  OBVIOUS
<1>. QED  BY <1>1, <1>2

LEMMA FiveDealt ==
  ASSUME NEW total \in Nat, NEW least \in Nat \ {0, 1}, NEW rest \in Int,
         NEW q1 \in Int, NEW q2 \in Int, NEW q3 \in Int, NEW q4 \in Int, NEW q5 \in Int,
         rest = total - (q1 + q2 + q3 + q4 + q5),
         Raised(q1 + (rest + 5 - 1) \div 5, least) > least,
         Raised(q2 + (rest + 5 - 2) \div 5, least) > least,
         Raised(q3 + (rest + 5 - 3) \div 5, least) > least,
         Raised(q4 + (rest + 5 - 4) \div 5, least) > least,
         Raised(q5 + (rest + 5 - 5) \div 5, least) > least
  PROVE  Raised(q1 + (rest + 5 - 1) \div 5, least)
            + Raised(q2 + (rest + 5 - 2) \div 5, least)
            + Raised(q3 + (rest + 5 - 3) \div 5, least)
            + Raised(q4 + (rest + 5 - 4) \div 5, least)
            + Raised(q5 + (rest + 5 - 5) \div 5, least) <= total
<1>1. /\ Raised(q1 + (rest + 5 - 1) \div 5, least) = q1 + (rest + 5 - 1) \div 5
      /\ Raised(q2 + (rest + 5 - 2) \div 5, least) = q2 + (rest + 5 - 2) \div 5
      /\ Raised(q3 + (rest + 5 - 3) \div 5, least) = q3 + (rest + 5 - 3) \div 5
      /\ Raised(q4 + (rest + 5 - 4) \div 5, least) = q4 + (rest + 5 - 4) \div 5
      /\ Raised(q5 + (rest + 5 - 5) \div 5, least) = q5 + (rest + 5 - 5) \div 5
  BY DEF Raised
<1>2. (rest + 5 - 1) \div 5 + (rest + 5 - 2) \div 5 + (rest + 5 - 3) \div 5 + (rest + 5 - 4) \div 5 + (rest + 5 - 5) \div 5 = rest
  OBVIOUS
<1>. QED  BY <1>1, <1>2

\* The weights of the passes of a plan.
PlanWeight(count, n) == Weight[PassPlan(count)[n]]

LEMMA PlanShape ==
  ASSUME NEW count \in 2..5
  PROVE  /\ PassPlan(count) \in Seq(Passes)
         /\ Len(PassPlan(count)) = count
         /\ \A n \in 1..count : PlanWeight(count, n) \in Nat
<1>. DEFINE P == PassPlan(count)
<1>1. \/ count = 2 /\ P = <<"REFINE", "STRESS_TEST">>
      \/ count = 3 /\ P = <<"REFINE", "COUNTERARG", "STRESS_TEST">>
      \/ count = 4 /\ P = <<"REFINE", "COUNTERARG", "ALTERNATIVES", "STRESS_TEST">>
      \/ count = 5 /\ P = <<"REFINE", "COUNTERARG", "STRESS_TEST", "ALTERNATIVES", "REGRET">>
  BY DEF PassPlan
<1>2. P \in Seq(Passes) /\ Len(P) = count
  <2>1. CASE count = 2
    <3>1. <<"REFINE", "STRESS_TEST">> \in Seq(Passes) /\ Len(<<"REFINE", "STRESS_TEST">>) = 2
      BY DEF Passes
    <3>2. P = <<"REFINE", "STRESS_TEST">>
      BY <2>1, <1>1
    <3>. QED  BY <2>1, <3>1, <3>2
  <2>2. CASE count = 3
    <3>1. <<"REFINE", "COUNTERARG", "STRESS_TEST">> \in Seq(Passes) /\ Len(<<"REFINE", "COUNTERARG", "STRESS_TEST">>) = 3
      BY DEF Passes
    <3>2. P = <<"REFINE", "COUNTERARG", "STRESS_TEST">>
      BY <2>2, <1>1
    <3>. QED  BY <2>2, <3>1, <3>2
  <2>3. CASE count = 4
    <3>1. <<"REFINE", "COUNTERARG", "ALTERNATIVES", "STRESS_TEST">> \in Seq(Passes) /\ Len(<<"REFINE", "COUNTERARG", "ALTERNATIVES", "STRESS_TEST">>) = 4
      BY DEF Passes
    <3>2. P = <<"REFINE", "COUNTERARG", "ALTERNATIVES", "STRESS_TEST">>
      BY <2>3, <1>1
    <3>. QED  BY <2>3, <3>1, <3>2
  <2>4. CASE count = 5
    <3>1. <<"REFINE", "COUNTERARG", "STRESS_TEST", "ALTERNATIVES", "REGRET">> \in Seq(Passes) /\ Len(<<"REFINE", "COUNTERARG", "STRESS_TEST", "ALTERNATIVES", "REGRET">>) = 5
      BY DEF Passes
    <3>2. P = <<"REFINE", "COUNTERARG", "STRESS_TEST", "ALTERNATIVES", "REGRET">>
      BY <2>4, <1>1
    <3>. QED  BY <2>4, <3>1, <3>2
  <2>. QED  BY <2>1, <2>2, <2>3, <2>4
<1>3. \A pass \in Passes : Weight[pass] \in Nat
  BY DEF Passes, Weight
<1>4. \A n \in 1..count : P[n] \in Passes
  <2>. HIDE DEF P
  <2>. QED  BY <1>2
<1>. QED  BY <1>2, <1>3, <1>4 DEF PlanWeight

LEMMA PlanWeights ==
  /\ PlanWeight(2, 1) = 30 /\ PlanWeight(2, 2) = 20
  /\ PlanWeight(3, 1) = 30 /\ PlanWeight(3, 2) = 20 /\ PlanWeight(3, 3) = 20
  /\ PlanWeight(4, 1) = 30 /\ PlanWeight(4, 2) = 20 /\ PlanWeight(4, 3) = 15 /\ PlanWeight(4, 4) = 20
  /\ PlanWeight(5, 1) = 30 /\ PlanWeight(5, 2) = 20 /\ PlanWeight(5, 3) = 20 /\ PlanWeight(5, 4) = 15 /\ PlanWeight(5, 5) = 15
BY DEF PlanWeight, PassPlan, Weight

\* What the shares may come to: the total, or one least share more where one is raised.
Granted(shares, total, least) ==
    IF \A n \in DOMAIN shares : shares[n] > least THEN total ELSE total + least

\* The shares of a plan that fits.
LEMMA SharesFit ==
  ASSUME NEW count \in 2..5, NEW total \in Nat, NEW least \in Nat \ {0, 1},
         total >= count * least
  PROVE  /\ Allocation(PassPlan(count), total, least) \in Seq(Int)
         /\ Total(Allocation(PassPlan(count), total, least))
               <= Granted(Allocation(PassPlan(count), total, least), total, least)
<1>. DEFINE P == PassPlan(count)
            ws == [n \in 1..Len(P) |-> Weight[P[n]]]
            weights == Total(ws)
            floor == [n \in 1..Len(P) |-> (Weight[P[n]] * total) \div weights]
            rest == total - Total(floor)
            dealt == [n \in 1..Len(P) |-> floor[n] + (rest + Len(P) - n) \div Len(P)]
            A == [n \in 1..Len(P) |-> IF dealt[n] < least THEN least ELSE dealt[n]]
<1>1. Allocation(PassPlan(count), total, least) = A
  BY DEF Allocation
<1>2. Len(P) = count /\ ws = [n \in 1..count |-> PlanWeight(count, n)]
  BY PlanShape DEF PlanWeight
<1>3. ws \in Seq(Int) /\ Len(ws) = count
  <2>. HIDE DEF P
  <2>1. ASSUME NEW n \in 1..count PROVE PlanWeight(count, n) \in Int
    <3>1. PlanWeight(count, n) \in Nat
      BY PlanShape
    <3>. QED  BY <3>1
  <2>. HIDE DEF ws
  <2>. QED  BY <1>2, <2>1
<1>4. weights \in {50, 70, 85, 100} /\ weights \in Int
  <2>. HIDE DEF P
  <2>1. \A n \in 1..count : ws[n] = PlanWeight(count, n)
    BY <1>2
  <2>. HIDE DEF ws
  <2>2. CASE count = 2
    BY <1>3, <2>1, <2>2, ShortTotals, PlanWeights
  <2>3. CASE count = 3
    BY <1>3, <2>1, <2>3, ShortTotals, PlanWeights
  <2>4. CASE count = 4
    BY <1>3, <2>1, <2>4, ShortTotals, PlanWeights
  <2>5. CASE count = 5
    BY <1>3, <2>1, <2>5, ShortTotals, PlanWeights, SMTT(30)
  <2>. QED  BY <2>2, <2>3, <2>4, <2>5
<1>5. /\ floor \in Seq(Int) /\ Len(floor) = count
      /\ \A n \in 1..count : floor[n] = (PlanWeight(count, n) * total) \div weights
      /\ \A n \in 1..count : floor[n] \in Int
  <2>. HIDE DEF P, ws, weights
  <2>1. floor = [n \in 1..count |-> (PlanWeight(count, n) * total) \div weights]
    <3>1. \A n \in 1..count : Weight[P[n]] = PlanWeight(count, n)
      BY DEF PlanWeight, P
    <3>. QED  BY <1>2, <3>1
  <2>2. \A n \in 1..count : PlanWeight(count, n) * total \in Nat
    <3>1. \A a, b \in Nat : a * b \in Nat
      OBVIOUS
    <3>. QED  BY <3>1, PlanShape
  <2>3. \A k \in Nat : k \div weights \in Int
    BY <1>4
  <2>4. \A n \in 1..count : (PlanWeight(count, n) * total) \div weights \in Int
    BY <2>2, <2>3
  <2>. HIDE DEF floor
  <2>. QED  BY <2>1, <2>4
<1>6. rest \in Int
  <2>. HIDE DEF P, ws, weights, floor
  <2>. QED  BY <1>5, TotalIsInt
<1>7. /\ A \in Seq(Int) /\ Len(A) = count
      /\ \A n \in 1..count : A[n] = Raised(floor[n] + (rest + count - n) \div count, least)
  <2>. HIDE DEF P, ws, weights, floor, rest
  <2>1. A = [n \in 1..count |-> Raised(floor[n] + (rest + count - n) \div count, least)]
    BY <1>2 DEF Raised
  <2>2. \A k \in Int : k \div count \in Int
    OBVIOUS
  <2>3. \A n \in 1..count : Raised(floor[n] + (rest + count - n) \div count, least) \in Int
    BY <1>5, <1>6, <2>2 DEF Raised
  <2>. HIDE DEF A
  <2>. QED  BY <2>1, <2>3
<1>8. Total(A) <= total + least /\ ((\A n \in 1..count : A[n] > least) => Total(A) <= total)
  <2>1. weights = Total(ws) /\ rest = total - Total(floor)
    OBVIOUS
  <2>2. \A n \in 1..count : ws[n] = PlanWeight(count, n)
    <3>. HIDE DEF P, ws
    <3>. QED  BY <1>2
  <2>. HIDE DEF P, ws, weights, floor, rest, A
  <2>3. CASE count = 2
    <3>1. weights = 50
      BY <1>3, <2>1, <2>2, <2>3, ShortTotals, PlanWeights
    <3>2. /\ floor[1] = (30 * total) \div 50
          /\ floor[2] = (20 * total) \div 50
      BY <1>5, <2>3, <3>1, PlanWeights
    <3>3. floor[1] \in Int /\ floor[2] \in Int
      BY <1>5, <2>3
    <3>4. rest = total - (floor[1] + floor[2])
      BY <1>5, <2>1, <2>3, ShortTotals
    <3>5. /\ A[1] = Raised(floor[1] + (rest + 2 - 1) \div 2, least)
          /\ A[2] = Raised(floor[2] + (rest + 2 - 2) \div 2, least)
      BY <1>7, <2>3
    <3>6. Total(A) = A[1] + A[2]
      BY <1>7, <2>3, ShortTotals
    <3>7. A[1] + A[2] <= total + least
      BY <1>6, <2>3, <3>2, <3>3, <3>4, <3>5, TwoShares
    <3>8. ASSUME \A n \in 1..count : A[n] > least
          PROVE  A[1] + A[2] <= total
      <4>1. A[1] > least /\ A[2] > least
        BY <2>3, <3>8
      <4>2. /\ Raised(floor[1] + (rest + 2 - 1) \div 2, least) > least
            /\ Raised(floor[2] + (rest + 2 - 2) \div 2, least) > least
        BY <3>5, <4>1
      <4>3. Raised(floor[1] + (rest + 2 - 1) \div 2, least)
               + Raised(floor[2] + (rest + 2 - 2) \div 2, least) <= total
        BY <1>6, <3>3, <3>4, <4>2, TwoDealt
      <4>. QED  BY <3>5, <4>3
    <3>. QED  BY <3>6, <3>7, <3>8
  <2>4. CASE count = 3
    <3>1. weights = 70
      BY <1>3, <2>1, <2>2, <2>4, ShortTotals, PlanWeights
    <3>2. /\ floor[1] = (30 * total) \div 70
          /\ floor[2] = (20 * total) \div 70
          /\ floor[3] = (20 * total) \div 70
      BY <1>5, <2>4, <3>1, PlanWeights
    <3>3. floor[1] \in Int /\ floor[2] \in Int /\ floor[3] \in Int
      BY <1>5, <2>4
    <3>4. rest = total - (floor[1] + floor[2] + floor[3])
      BY <1>5, <2>1, <2>4, ShortTotals
    <3>5. /\ A[1] = Raised(floor[1] + (rest + 3 - 1) \div 3, least)
          /\ A[2] = Raised(floor[2] + (rest + 3 - 2) \div 3, least)
          /\ A[3] = Raised(floor[3] + (rest + 3 - 3) \div 3, least)
      BY <1>7, <2>4
    <3>6. Total(A) = A[1] + A[2] + A[3]
      BY <1>7, <2>4, ShortTotals
    <3>7. A[1] + A[2] + A[3] <= total + least
      BY <1>6, <2>4, <3>2, <3>3, <3>4, <3>5, ThreeShares
    <3>8. ASSUME \A n \in 1..count : A[n] > least
          PROVE  A[1] + A[2] + A[3] <= total
      <4>1. A[1] > least /\ A[2] > least /\ A[3] > least
        BY <2>4, <3>8
      <4>2. /\ Raised(floor[1] + (rest + 3 - 1) \div 3, least) > least
            /\ Raised(floor[2] + (rest + 3 - 2) \div 3, least) > least
            /\ Raised(floor[3] + (rest + 3 - 3) \div 3, least) > least
        BY <3>5, <4>1
      <4>3. Raised(floor[1] + (rest + 3 - 1) \div 3, least)
               + Raised(floor[2] + (rest + 3 - 2) \div 3, least)
               + Raised(floor[3] + (rest + 3 - 3) \div 3, least) <= total
        BY <1>6, <3>3, <3>4, <4>2, ThreeDealt
      <4>. QED  BY <3>5, <4>3
    <3>. QED  BY <3>6, <3>7, <3>8
  <2>5. CASE count = 4
    <3>1. weights = 85
      BY <1>3, <2>1, <2>2, <2>5, ShortTotals, PlanWeights
    <3>2. /\ floor[1] = (30 * total) \div 85
          /\ floor[2] = (20 * total) \div 85
          /\ floor[3] = (15 * total) \div 85
          /\ floor[4] = (20 * total) \div 85
      BY <1>5, <2>5, <3>1, PlanWeights
    <3>3. floor[1] \in Int /\ floor[2] \in Int /\ floor[3] \in Int /\ floor[4] \in Int
      BY <1>5, <2>5
    <3>4. rest = total - (floor[1] + floor[2] + floor[3] + floor[4])
      BY <1>5, <2>1, <2>5, ShortTotals
    <3>5. /\ A[1] = Raised(floor[1] + (rest + 4 - 1) \div 4, least)
          /\ A[2] = Raised(floor[2] + (rest + 4 - 2) \div 4, least)
          /\ A[3] = Raised(floor[3] + (rest + 4 - 3) \div 4, least)
          /\ A[4] = Raised(floor[4] + (rest + 4 - 4) \div 4, least)
      BY <1>7, <2>5
    <3>6. Total(A) = A[1] + A[2] + A[3] + A[4]
      BY <1>7, <2>5, ShortTotals
    <3>7. A[1] + A[2] + A[3] + A[4] <= total + least
      BY <1>6, <2>5, <3>2, <3>3, <3>4, <3>5, FourShares
    <3>8. ASSUME \A n \in 1..count : A[n] > least
          PROVE  A[1] + A[2] + A[3] + A[4] <= total
      <4>1. A[1] > least /\ A[2] > least /\ A[3] > least /\ A[4] > least
        BY <2>5, <3>8
      <4>2. /\ Raised(floor[1] + (rest + 4 - 1) \div 4, least) > least
            /\ Raised(floor[2] + (rest + 4 - 2) \div 4, least) > least
            /\ Raised(floor[3] + (rest + 4 - 3) \div 4, least) > least
            /\ Raised(floor[4] + (rest + 4 - 4) \div 4, least) > least
        BY <3>5, <4>1
      <4>3. Raised(floor[1] + (rest + 4 - 1) \div 4, least)
               + Raised(floor[2] + (rest + 4 - 2) \div 4, least)
               + Raised(floor[3] + (rest + 4 - 3) \div 4, least)
               + Raised(floor[4] + (rest + 4 - 4) \div 4, least) <= total
        BY <1>6, <3>3, <3>4, <4>2, FourDealt
      <4>. QED  BY <3>5, <4>3
    <3>. QED  BY <3>6, <3>7, <3>8
  <2>6. CASE count = 5
    <3>1. weights = 100
      BY <1>3, <2>1, <2>2, <2>6, ShortTotals, PlanWeights
    <3>2. /\ floor[1] = (30 * total) \div 100
          /\ floor[2] = (20 * total) \div 100
          /\ floor[3] = (20 * total) \div 100
          /\ floor[4] = (15 * total) \div 100
          /\ floor[5] = (15 * total) \div 100
      BY <1>5, <2>6, <3>1, PlanWeights
    <3>3. floor[1] \in Int /\ floor[2] \in Int /\ floor[3] \in Int /\ floor[4] \in Int /\ floor[5] \in Int
      BY <1>5, <2>6
    <3>4. rest = total - (floor[1] + floor[2] + floor[3] + floor[4] + floor[5])
      BY <1>5, <2>1, <2>6, ShortTotals
    <3>5. /\ A[1] = Raised(floor[1] + (rest + 5 - 1) \div 5, least)
          /\ A[2] = Raised(floor[2] + (rest + 5 - 2) \div 5, least)
          /\ A[3] = Raised(floor[3] + (rest + 5 - 3) \div 5, least)
          /\ A[4] = Raised(floor[4] + (rest + 5 - 4) \div 5, least)
          /\ A[5] = Raised(floor[5] + (rest + 5 - 5) \div 5, least)
      BY <1>7, <2>6
    <3>6. Total(A) = A[1] + A[2] + A[3] + A[4] + A[5]
      BY <1>7, <2>6, ShortTotals
    <3>7. A[1] + A[2] + A[3] + A[4] + A[5] <= total + least
      BY <1>6, <2>6, <3>2, <3>3, <3>4, <3>5, FiveShares, SMTT(30)
    <3>8. ASSUME \A n \in 1..count : A[n] > least
          PROVE  A[1] + A[2] + A[3] + A[4] + A[5] <= total
      <4>1. A[1] > least /\ A[2] > least /\ A[3] > least /\ A[4] > least /\ A[5] > least
        BY <2>6, <3>8
      <4>2. /\ Raised(floor[1] + (rest + 5 - 1) \div 5, least) > least
            /\ Raised(floor[2] + (rest + 5 - 2) \div 5, least) > least
            /\ Raised(floor[3] + (rest + 5 - 3) \div 5, least) > least
            /\ Raised(floor[4] + (rest + 5 - 4) \div 5, least) > least
            /\ Raised(floor[5] + (rest + 5 - 5) \div 5, least) > least
        BY <3>5, <4>1
      <4>3. Raised(floor[1] + (rest + 5 - 1) \div 5, least)
               + Raised(floor[2] + (rest + 5 - 2) \div 5, least)
               + Raised(floor[3] + (rest + 5 - 3) \div 5, least)
               + Raised(floor[4] + (rest + 5 - 4) \div 5, least)
               + Raised(floor[5] + (rest + 5 - 5) \div 5, least) <= total
        BY <1>6, <3>3, <3>4, <4>2, FiveDealt
      <4>. QED  BY <3>5, <4>3
    <3>. QED  BY <3>6, <3>7, <3>8
  <2>. QED  BY <2>3, <2>4, <2>5, <2>6
<1>9. Total(A) <= Granted(A, total, least)
  <2>. HIDE DEF A
  <2>1. DOMAIN A = 1..count
    BY <1>7
  <2>. QED  BY <1>8, <2>1 DEF Granted
<1>. QED
  <2>. HIDE DEF A
  <2>. QED  BY <1>1, <1>7, <1>9

-----------------------------------------------------------------------------
(* Deep thinking: what stops a run, and its plan.                            *)

\* The first reason is the reason of a check that holds, or none does.
LEMMA FirstReasonIs ==
  ASSUME NEW checks, Len(checks) \in Nat, DOMAIN checks = 1..Len(checks)
  PROVE  \/ FirstReason(checks) = None /\ \A k \in 1..Len(checks) : ~checks[k][1]
         \/ \E k \in 1..Len(checks) : checks[k][1] /\ FirstReason(checks) = checks[k][2]
<1>. DEFINE hits == {k \in DOMAIN checks : checks[k][1]}
            n == Least(hits \cup {Len(checks) + 1})
<1>1. FirstReason(checks) = IF n > Len(checks) THEN None ELSE checks[n][2]
  BY DEF FirstReason
<1>2. \A k \in 1..Len(checks) : k \in hits <=> checks[k][1]
  OBVIOUS
<1>3. hits \subseteq 1..Len(checks)
  OBVIOUS
<1>4. n \in hits \cup {Len(checks) + 1} /\ \A k \in hits : n <= k
  <2>. DEFINE all == hits \cup {Len(checks) + 1}
  <2>1. all \in SUBSET Nat /\ all # {}
    BY <1>3
  <2>. HIDE DEF hits, all
  <2>2. Least(all) \in all /\ \A k \in all : Least(all) <= k
    BY <2>1, LeastIs
  <2>. QED  BY <2>2 DEF all
<1>. HIDE DEF hits, n
<1>5. CASE n \in hits
  <2>1. n \in 1..Len(checks) /\ checks[n][1] /\ ~(n > Len(checks))
    BY <1>2, <1>3, <1>5
  <2>. QED  BY <1>1, <2>1
<1>6. CASE n = Len(checks) + 1
  <2>1. \A k \in 1..Len(checks) : k \notin hits
    BY <1>4, <1>6
  <2>2. n > Len(checks)
    BY <1>6
  <2>. QED  BY <1>1, <1>2, <2>1, <2>2
<1>. QED  BY <1>4, <1>5, <1>6

\* The plan of an input that passes every check of the router.
LEMMA EnabledPlan ==
  ASSUME NEW in \in Inputs,
         ~(TotalTimeout(in) < 2 * MinTimeout \/ TotalBudget(in) <= 0), ~(PassCount(in) < 2)
  PROVE  /\ PassCount(in) \in 2..5
         /\ TotalTimeout(in) \in Nat /\ TotalTimeout(in) >= PassCount(in) * MinTimeout
         /\ MinTimeout \in Nat \ {0, 1}
<1>. DEFINE T == {TierPasses[in.tier], TotalTimeout(in) \div MinTimeout,
                  TotalBudget(in) \div MinBudget, 5}
<1>1. /\ in.tier \in Tiers /\ in.timeout \in Int /\ in.budget \in Int
      /\ MinTimeout \in Nat \ {0, 1} /\ MinBudget \in Nat \ {0, 1}
      /\ TierPasses \in [Tiers -> 0..5]
      /\ TierTimeout \in [Tiers -> Nat] /\ TierBudget \in [Tiers -> Nat]
  BY DeepThinkSettings
<1>2. TierPasses[in.tier] \in 0..5 /\ TotalTimeout(in) \in Int /\ TotalBudget(in) \in Int
  BY <1>1 DEF TotalTimeout, TotalBudget
<1>3. TotalTimeout(in) \in Nat /\ TotalBudget(in) \in Nat
  BY <1>1, <1>2
<1>4. \A a \in Nat, b \in Nat \ {0, 1} : a \div b \in Nat
  OBVIOUS
<1>5. T \in SUBSET Nat /\ T # {} /\ 5 \in T /\ TotalTimeout(in) \div MinTimeout \in T
  BY <1>1, <1>2, <1>3, <1>4
<1>6. PassCount(in) \in T /\ \A n \in T : PassCount(in) <= n
  <2>1. PassCount(in) = Least(T)
    BY DEF PassCount
  <2>. HIDE DEF T
  <2>. QED  BY <1>5, <2>1, LeastIs
<1>7. PassCount(in) \in 2..5 /\ PassCount(in) <= TotalTimeout(in) \div MinTimeout
  <2>. HIDE DEF T
  <2>1. PassCount(in) \in Nat /\ PassCount(in) <= 5
    BY <1>5, <1>6
  <2>2. PassCount(in) <= TotalTimeout(in) \div MinTimeout
    BY <1>5, <1>6
  <2>. QED  BY <2>1, <2>2
<1>8. \A c \in 2..5, t \in Nat, m \in Nat \ {0, 1} : c <= t \div m => t >= c * m
  <2>. SUFFICES ASSUME NEW t \in Nat, NEW m \in Nat \ {0, 1}
                PROVE  \A c \in 2..5 : c <= t \div m => t >= c * m
    OBVIOUS
  <2>. DEFINE k == t \div m
  <2>1. k \in Nat /\ t >= k * m
    OBVIOUS
  <2>2. \A c \in 2..5 : c <= k => k * m >= c * m
    OBVIOUS
  <2>. QED  BY <2>1, <2>2
<1>. QED  BY <1>1, <1>3, <1>7, <1>8

\* The reasons for which a run is cut short.
Stopping == StopReason \ {"SUCCESS_COMPLETED"}

\* Every plan.
LEMMA Plans ==
  ASSUME NEW in \in Inputs
  PROVE  /\ BuildPlan(in).stop \in Stopping \cup {None}
         /\ BuildPlan(in).passes \in Seq(Passes) /\ Len(BuildPlan(in).passes) <= 5
         /\ BuildPlan(in).stop = None =>
                /\ BuildPlan(in).timeouts \in Seq(Int)
                /\ Total(BuildPlan(in).timeouts)
                      <= Granted(BuildPlan(in).timeouts, TotalTimeout(in), MinTimeout)
                /\ TotalTimeout(in) \in Nat /\ MinTimeout \in Nat
<1>. DEFINE checks == <<
            <<~in.enabled \/ in.tier = "FREE", "ENTITLEMENT_CAP">>,
            <<in.breaker, "BREAKER_TRIPPED">>,
            <<in.abuse, "ABUSE">>,
            <<~in.deep \/ TierPasses[in.tier] = 0, "ENTITLEMENT_CAP">>,
            <<TotalTimeout(in) < 2 * MinTimeout \/ TotalBudget(in) <= 0, "BUDGET_EXHAUSTED">>,
            <<PassCount(in) < 2, "BUDGET_EXHAUSTED">> >>
            stop == FirstReason(checks)
<1>1. BuildPlan(in) =
        IF stop # None THEN Disabled(stop)
        ELSE [passes |-> PassPlan(PassCount(in)), stop |-> None,
              timeouts |-> Allocation(PassPlan(PassCount(in)), TotalTimeout(in), MinTimeout),
              budgets |-> Allocation(PassPlan(PassCount(in)), TotalBudget(in), MinBudget)]
  BY DEF BuildPlan
<1>2. Len(checks) = 6 /\ DOMAIN checks = 1..6
  OBVIOUS
<1>3. \A k \in 1..6 : checks[k][2] \in Stopping
  BY DEF Stopping, StopReason
<1>4. \/ stop = None /\ \A k \in 1..6 : ~checks[k][1]
      \/ stop \in Stopping
  <2>. HIDE DEF checks
  <2>1. Len(checks) \in Nat /\ DOMAIN checks = 1..Len(checks)
    BY <1>2
  <2>2. \/ stop = None /\ \A k \in 1..Len(checks) : ~checks[k][1]
        \/ \E k \in 1..Len(checks) : checks[k][1] /\ stop = checks[k][2]
    BY <2>1, FirstReasonIs
  <2>. HIDE DEF stop
  <2>. QED  BY <1>2, <1>3, <2>2
<1>5. None \notin Stopping
  BY DEF None, Stopping, StopReason
<1>6. CASE stop # None
  <2>1. BuildPlan(in) = Disabled(stop) /\ stop \in Stopping
    BY <1>1, <1>4, <1>6
  <2>. HIDE DEF stop
  <2>. QED  BY <2>1, <1>5 DEF Disabled
<1>7. CASE stop = None
  <2>1. \A k \in 1..6 : ~checks[k][1]
    BY <1>4, <1>5, <1>7
  <2>2. ~checks[5][1] /\ ~checks[6][1]
    <3>. HIDE DEF checks
    <3>. QED  BY <2>1
  <2>3. ~(TotalTimeout(in) < 2 * MinTimeout \/ TotalBudget(in) <= 0) /\ ~(PassCount(in) < 2)
    BY <2>2
  <2>4. /\ PassCount(in) \in 2..5 /\ MinTimeout \in Nat \ {0, 1}
        /\ TotalTimeout(in) \in Nat /\ TotalTimeout(in) >= PassCount(in) * MinTimeout
    BY <2>3, EnabledPlan
  <2>5. /\ BuildPlan(in).stop = None
        /\ BuildPlan(in).passes = PassPlan(PassCount(in))
        /\ BuildPlan(in).timeouts
              = Allocation(PassPlan(PassCount(in)), TotalTimeout(in), MinTimeout)
    BY <1>1, <1>7
  <2>6. PassPlan(PassCount(in)) \in Seq(Passes) /\ Len(PassPlan(PassCount(in))) = PassCount(in)
    BY <2>4, PlanShape
  <2>7. /\ Allocation(PassPlan(PassCount(in)), TotalTimeout(in), MinTimeout) \in Seq(Int)
        /\ Total(Allocation(PassPlan(PassCount(in)), TotalTimeout(in), MinTimeout))
              <= Granted(Allocation(PassPlan(PassCount(in)), TotalTimeout(in), MinTimeout),
                         TotalTimeout(in), MinTimeout)
    BY <2>4, SharesFit
  <2>. QED  BY <2>4, <2>5, <2>6, <2>7
<1>. QED  BY <1>6, <1>7

-----------------------------------------------------------------------------
(* Deep thinking: the inductive invariant.                                   *)

CostsOf(ss, n) == [k \in 1..n |-> ss[k].cost]
TimesOf(ss, n) == [k \in 1..n |-> ss[k].time]

\* The passes whose patches count, and those whose patches the validator refused.
KeptOf(ss) == {n \in DOMAIN ss : ss[n].applied}
RefusedOf(ss) == {n \in DOMAIN ss : ~ss[n].applied /\ ss[n].patch # "error"}

\* by names the kept passes in order.
Names(by, ss) ==
    /\ Len(by) = Cardinality(KeptOf(ss))
    /\ \A n \in KeptOf(ss) : by[Cardinality({k \in KeptOf(ss) : k <= n})] = ss[n].pass

\* What a run has left is what its passes have not spent.
Accounted ==
    /\ outcome = NotStarted => summaries = <<>>
    /\ outcome = Pending => /\ plan.stop = None
                           /\ remaining = TotalBudget(input) - Total(CostsOf(summaries, Len(summaries)))
    /\ elapsed = Total(TimesOf(summaries, Len(summaries)))

Followed == \A n \in 1..Len(summaries) : summaries[n].pass = plan.passes[n]

\* A run that goes on has had no exception and at most one refusal, its strike.
Forgiven ==
    outcome \in {NotStarted, Pending} =>
        /\ strikes <= 1
        /\ \A n \in DOMAIN summaries : summaries[n].patch # "raised"
        /\ strikes = 0 => RefusedOf(summaries) = {}
        /\ strikes = 1 => \E n \in DOMAIN summaries : RefusedOf(summaries) = {n}

Patched ==
    /\ Names(current.by, summaries)
    /\ current.action \in DecisionAction \cup {initial.action}

RunInv ==
    RunTypeOK /\ Accounted /\ Followed /\ Forgiven /\ Patched /\ PatchedOrBaseline /\ OverdrawsOnePass

-----------------------------------------------------------------------------
(* Deep thinking: what one more pass adds to the summaries.                  *)

LEMMA SummaryTyped ==
  ASSUME NEW s \in PassSummary
  PROVE  /\ s.cost \in Nat /\ s.time \in Nat /\ s.cost \in Int /\ s.time \in Int
         /\ s.pass \in Passes /\ s.applied \in BOOLEAN
<1>1. s.cost \in Costs \cup {0} /\ s.time \in Times /\ s.pass \in Passes /\ s.applied \in BOOLEAN
  BY DEF PassSummary
<1>2. Costs \subseteq Nat /\ Times \subseteq Nat
  BY DeepThinkSettings
<1>3. s.cost \in Nat /\ s.time \in Nat
  <2>1. \A c \in Costs \cup {0} : c \in Nat
    BY <1>2
  <2>2. \A t \in Times : t \in Nat
    BY <1>2
  <2>. QED  BY <1>1, <2>1, <2>2
<1>4. \A k \in Nat : k \in Int
  OBVIOUS
<1>. QED  BY <1>1, <1>3, <1>4

LEMMA CostsTyped ==
  ASSUME NEW ss \in Seq(PassSummary), NEW n \in 0..Len(ss)
  PROVE  /\ CostsOf(ss, n) \in Seq(Nat) /\ Len(CostsOf(ss, n)) = n
         /\ TimesOf(ss, n) \in Seq(Nat) /\ Len(TimesOf(ss, n)) = n
<1>1. ASSUME NEW k \in 1..n PROVE ss[k].cost \in Nat /\ ss[k].time \in Nat
  <2>1. ss[k] \in PassSummary
    OBVIOUS
  <2>. QED  BY <2>1, SummaryTyped
<1>. QED  BY <1>1, SMTT(30) DEF CostsOf, TimesOf

\* tt is ss with s at its end.
Grown(ss, s, tt) ==
    /\ tt \in Seq(PassSummary) /\ Len(tt) = Len(ss) + 1 /\ tt[Len(ss) + 1] = s
    /\ \A n \in 1..Len(ss) : tt[n] = ss[n]
    /\ \A n \in 0..Len(ss) : CostsOf(tt, n) = CostsOf(ss, n) /\ TimesOf(tt, n) = TimesOf(ss, n)
    /\ Total(CostsOf(tt, Len(tt))) = Total(CostsOf(ss, Len(ss))) + s.cost
    /\ Total(TimesOf(tt, Len(tt))) = Total(TimesOf(ss, Len(ss))) + s.time

LEMMA CostsMore ==
  ASSUME NEW ss \in Seq(PassSummary), NEW s \in PassSummary,
         NEW tt, tt = Append(ss, s)
  PROVE  Grown(ss, s, tt)
<1>1. /\ tt \in Seq(PassSummary) /\ Len(tt) = Len(ss) + 1 /\ tt[Len(ss) + 1] = s
      /\ \A n \in 1..Len(ss) : tt[n] = ss[n]
  OBVIOUS
<1>2. \A n \in 0..Len(ss) : CostsOf(tt, n) = CostsOf(ss, n) /\ TimesOf(tt, n) = TimesOf(ss, n)
  BY <1>1 DEF CostsOf, TimesOf
<1>3. s.cost \in Int /\ s.time \in Int
  BY SummaryTyped
<1>4. Len(ss) \in 0..Len(ss) /\ Len(tt) \in 0..Len(tt)
  BY <1>1
<1>5. Total(CostsOf(tt, Len(tt))) = Total(CostsOf(ss, Len(ss))) + s.cost
  <2>. DEFINE a == CostsOf(ss, Len(ss))
              b == CostsOf(tt, Len(tt))
  <2>0. a \in Seq(Nat) /\ Len(a) = Len(ss) /\ b \in Seq(Nat) /\ Len(b) = Len(tt)
    <3>1. a \in Seq(Nat) /\ Len(a) = Len(ss)
      BY <1>4, CostsTyped
    <3>2. b \in Seq(Nat) /\ Len(b) = Len(tt)
      BY <1>1, <1>4, CostsTyped
    <3>. QED  BY <3>1, <3>2
  <2>1. a \in Seq(Int) /\ Len(a) = Len(ss) /\ b \in Seq(Int) /\ Len(b) = Len(tt)
    <3>. HIDE DEF a, b
    <3>. QED  BY <2>0
  <2>2. b[Len(b)] = s.cost /\ \A n \in 1..Len(a) : b[n] = a[n]
    BY <1>1, <2>1 DEF CostsOf
  <2>3. Len(b) = Len(a) + 1
    BY <1>1, <2>1
  <2>. HIDE DEF a, b
  <2>4. Total(b) = Total(a) + s.cost
    BY <1>3, <2>1, <2>2, <2>3, TotalOfMore
  <2>. QED  BY <2>4 DEF a, b
<1>6. Total(TimesOf(tt, Len(tt))) = Total(TimesOf(ss, Len(ss))) + s.time
  <2>. DEFINE a == TimesOf(ss, Len(ss))
              b == TimesOf(tt, Len(tt))
  <2>0. a \in Seq(Nat) /\ Len(a) = Len(ss) /\ b \in Seq(Nat) /\ Len(b) = Len(tt)
    <3>1. a \in Seq(Nat) /\ Len(a) = Len(ss)
      BY <1>4, CostsTyped
    <3>2. b \in Seq(Nat) /\ Len(b) = Len(tt)
      BY <1>1, <1>4, CostsTyped
    <3>. QED  BY <3>1, <3>2
  <2>1. a \in Seq(Int) /\ Len(a) = Len(ss) /\ b \in Seq(Int) /\ Len(b) = Len(tt)
    <3>. HIDE DEF a, b
    <3>. QED  BY <2>0
  <2>2. b[Len(b)] = s.time /\ \A n \in 1..Len(a) : b[n] = a[n]
    BY <1>1, <2>1 DEF TimesOf
  <2>3. Len(b) = Len(a) + 1
    BY <1>1, <2>1
  <2>. HIDE DEF a, b
  <2>4. Total(b) = Total(a) + s.time
    BY <1>3, <2>1, <2>2, <2>3, TotalOfMore
  <2>. QED  BY <2>4 DEF a, b
<1>. QED  BY <1>1, <1>2, <1>5, <1>6 DEF Grown

LEMMA SetsMore ==
  ASSUME NEW ss \in Seq(PassSummary), NEW s \in PassSummary,
         NEW tt, tt = Append(ss, s)
  PROVE  /\ KeptOf(tt) = IF s.applied THEN KeptOf(ss) \cup {Len(ss) + 1} ELSE KeptOf(ss)
         /\ RefusedOf(tt) = IF ~s.applied /\ s.patch # "error"
                            THEN RefusedOf(ss) \cup {Len(ss) + 1} ELSE RefusedOf(ss)
         /\ DOMAIN tt = DOMAIN ss \cup {Len(ss) + 1}
<1>1. DOMAIN tt = DOMAIN ss \cup {Len(ss) + 1} /\ Len(ss) + 1 \notin DOMAIN ss
  BY CostsMore DEF Grown
<1>2. tt[Len(ss) + 1] = s /\ \A n \in DOMAIN ss : tt[n] = ss[n]
  BY CostsMore DEF Grown
<1>. QED  BY <1>1, <1>2 DEF KeptOf, RefusedOf

\* The pass that is kept is named last, one that is not leaves the names as they are.
LEMMA NamesMore ==
  ASSUME NEW ss \in Seq(PassSummary), NEW s \in PassSummary, NEW by \in Seq(Passes),
         Names(by, ss)
  PROVE  Names(IF s.applied THEN Append(by, s.pass) ELSE by, Append(ss, s))
<1>. DEFINE tt == Append(ss, s)
            K == KeptOf(ss)
<1>1. /\ KeptOf(tt) = IF s.applied THEN K \cup {Len(ss) + 1} ELSE K
      /\ tt[Len(ss) + 1] = s /\ \A n \in 1..Len(ss) : tt[n] = ss[n]
  <2>1. tt = Append(ss, s)
    OBVIOUS
  <2>. HIDE DEF tt
  <2>2. KeptOf(tt) = IF s.applied THEN K \cup {Len(ss) + 1} ELSE K
    BY <2>1, SetsMore
  <2>3. tt[Len(ss) + 1] = s /\ \A n \in 1..Len(ss) : tt[n] = ss[n]
    BY <2>1, CostsMore DEF Grown
  <2>. QED  BY <2>2, <2>3
<1>2. K \subseteq 1..Len(ss) /\ IsFiniteSet(K) /\ Len(ss) \in Nat
  <2>1. K \subseteq 1..Len(ss) /\ Len(ss) \in Nat
    BY DEF KeptOf
  <2>2. IsFiniteSet(1..Len(ss))
    BY <2>1, FS_Interval
  <2>. HIDE DEF K
  <2>. QED  BY <2>1, <2>2, FS_Subset
<1>3. Len(by) = Cardinality(K) /\ \A n \in K : by[Cardinality({k \in K : k <= n})] = ss[n].pass
  BY DEF Names
<1>4. s.pass \in Passes /\ s.applied \in BOOLEAN
  BY SummaryTyped
<1>. HIDE DEF K, tt
<1>5. CASE s.applied
  <2>. DEFINE L == K \cup {Len(ss) + 1}
              more == Append(by, s.pass)
  <2>1. KeptOf(tt) = L /\ Len(ss) + 1 \notin K
    BY <1>1, <1>2, <1>5
  <2>2. Cardinality(L) = Cardinality(K) + 1 /\ Cardinality(K) \in Nat
    BY <1>2, <2>1, FS_AddElement, FS_CardinalityType
  <2>3. /\ Len(more) = Len(by) + 1 /\ more[Len(by) + 1] = s.pass
        /\ \A i \in 1..Len(by) : more[i] = by[i]
    BY <1>4
  <2>4. ASSUME NEW n \in L
        PROVE  more[Cardinality({k \in L : k <= n})] = tt[n].pass
    <3>1. CASE n = Len(ss) + 1
      <4>1. {k \in L : k <= n} = L
        <5>1. \A k \in L : k <= n
          BY <1>2, <3>1
        <5>. HIDE DEF L
        <5>. QED  BY <5>1
      <4>. QED  BY <1>1, <1>3, <2>2, <2>3, <3>1, <4>1
    <3>2. CASE n \in K
      <4>. DEFINE J == {k \in K : k <= n}
      <4>1. {k \in L : k <= n} = J
        BY <1>2, <3>2
      <4>2. J \subseteq K /\ n \in J
        BY <1>2, <3>2
      <4>. HIDE DEF J
      <4>3. Cardinality(J) \in Nat /\ Cardinality(J) <= Cardinality(K) /\ Cardinality(J) # 0
        BY <1>2, <4>2, FS_Subset, FS_CardinalityType, FS_EmptySet
      <4>4. Cardinality(J) \in 1..Len(by)
        BY <1>3, <2>2, <4>3
      <4>5. by[Cardinality(J)] = ss[n].pass
        BY <1>3, <3>2 DEF J
      <4>6. tt[n] = ss[n]
        BY <1>1, <1>2, <3>2
      <4>. QED  BY <2>3, <4>1, <4>4, <4>5, <4>6
    <3>. QED  BY <3>1, <3>2
  <2>5. Names(more, tt)
    <3>. HIDE DEF L, more
    <3>. QED  BY <1>3, <2>1, <2>2, <2>3, <2>4 DEF Names
  <2>. QED  BY <1>5, <2>5 DEF tt
<1>6. CASE ~s.applied
  <2>1. KeptOf(tt) = K /\ \A n \in K : tt[n] = ss[n]
    BY <1>1, <1>2, <1>6
  <2>2. Names(by, tt)
    BY <1>3, <2>1 DEF Names
  <2>. QED  BY <1>6, <2>2 DEF tt
<1>. QED  BY <1>5, <1>6

-----------------------------------------------------------------------------
(* Deep thinking: the steps.                                                 *)

LEMMA RunInitInv == RunInit => RunInv
<1>. SUFFICES ASSUME RunInit PROVE RunInv
  OBVIOUS
<1>. USE DEF RunInit
<1>1. summaries = <<>> /\ outcome = NotStarted /\ strikes = 0 /\ elapsed = 0
  OBVIOUS
<1>2. NotStarted # Pending
  BY DEF NotStarted, Pending, None
<1>3. initial \in Baselines /\ current = initial /\ current \in Decided /\ current.by = <<>>
  <2>1. initial \in [action : Actions, by : {<<>>}] /\ current = initial
    BY DEF Baselines
  <2>2. <<>> \in Seq(Passes)
    OBVIOUS
  <2>3. initial.by = <<>> /\ initial \in [action : Actions, by : Seq(Passes)]
    BY <2>1, <2>2
  <2>. QED  BY <2>1, <2>3 DEF Baselines, Decided
<1>4. BuildPlan(input).passes \in Seq(Passes)
  BY Plans
<1>5. RunTypeOK
  BY <1>3, <1>4 DEF RunTypeOK
<1>6. Accounted
  <2>1. TimesOf(summaries, Len(summaries)) \in Seq(Int)
        /\ Len(TimesOf(summaries, Len(summaries))) = 0
    BY <1>1 DEF TimesOf
  <2>2. Total(TimesOf(summaries, Len(summaries))) = 0
    BY <2>1, ShortTotals
  <2>. QED  BY <1>1, <1>2, <2>2 DEF Accounted
<1>7. Followed /\ OverdrawsOnePass
  BY <1>1 DEF Followed, OverdrawsOnePass
<1>8. Forgiven
  BY <1>1 DEF Forgiven, RefusedOf
<1>9. Patched
  <2>1. KeptOf(summaries) = {}
    BY <1>1 DEF KeptOf
  <2>. QED  BY <1>3, <2>1, FS_EmptySet DEF Patched, Names
<1>10. PatchedOrBaseline
  BY <1>1 DEF PatchedOrBaseline, Over
<1>. QED  BY <1>5, <1>6, <1>7, <1>8, <1>9, <1>10 DEF RunInv

\* The plan in force is the input's.
LEMMA PlanTyped ==
  ASSUME RunTypeOK
  PROVE  /\ plan.stop \in Stopping \cup {None}
         /\ plan.passes \in Seq(Passes) /\ Len(plan.passes) \in Nat /\ Len(plan.passes) <= 5
         /\ plan.stop = None =>
                /\ Total(plan.timeouts) \in Int
                /\ Total(plan.timeouts) <= TimeGranted /\ TimeGranted \in Nat
         /\ TotalBudget(input) \in Int
<1>1. input \in Inputs /\ plan = BuildPlan(input)
  BY DEF RunTypeOK
<1>2. TotalBudget(input) \in Int
  <2>1. /\ input.tier \in Tiers /\ input.budget \in Int
        /\ TierBudget \in [Tiers -> Nat]
    BY <1>1, DeepThinkSettings
  <2>. QED  BY <2>1 DEF TotalBudget
<1>3. /\ plan.stop \in Stopping \cup {None}
      /\ plan.passes \in Seq(Passes) /\ Len(plan.passes) <= 5
      /\ plan.stop = None =>
             /\ plan.timeouts \in Seq(Int)
             /\ Total(plan.timeouts)
                   <= Granted(plan.timeouts, TotalTimeout(input), MinTimeout)
             /\ TotalTimeout(input) \in Nat /\ MinTimeout \in Nat
  BY <1>1, Plans
<1>4. plan.stop = None => Total(plan.timeouts) \in Int
  BY <1>3, TotalIsInt
<1>5. TimeGranted = Granted(plan.timeouts, TotalTimeout(input), MinTimeout)
  BY DEF TimeGranted, Granted
<1>6. plan.stop = None => TimeGranted \in Nat
  BY <1>3 DEF TimeGranted
<1>. QED  BY <1>2, <1>3, <1>4, <1>5, <1>6

\* What makes the engine stop before a pass is a reason to stop.
LEMMA StopBeforePassIs ==
  ASSUME RunTypeOK
  PROVE  /\ StopBeforePass \in Stopping \cup {None}
         /\ StopBeforePass = None => ~(remaining <= 0) /\ ~(elapsed >= Total(plan.timeouts))
<1>. DEFINE checks == <<
        <<context.abuse, "ABUSE">>,
        <<context.breaker, "BREAKER_TRIPPED">>,
        <<remaining <= 0, "BUDGET_EXHAUSTED">>,
        <<elapsed >= Total(plan.timeouts), "TIMEOUT">>,
        <<OutOfStrikes(strikes), "VALIDATION_FAIL">>,
        <<Len(summaries) >= 5, "PASS_LIMIT_REACHED">> >>
<1>1. StopBeforePass = FirstReason(checks)
  BY DEF StopBeforePass
<1>2. Len(checks) = 6 /\ DOMAIN checks = 1..6
  OBVIOUS
<1>3. \A k \in 1..6 : checks[k][2] \in Stopping
  BY DEF Stopping, StopReason
<1>4. (checks[3][1] <=> remaining <= 0) /\ (checks[4][1] <=> elapsed >= Total(plan.timeouts))
  OBVIOUS
<1>5. None \notin Stopping
  BY DEF None, Stopping, StopReason
<1>. HIDE DEF checks
<1>6. Len(checks) \in Nat /\ DOMAIN checks = 1..Len(checks)
  BY <1>2
<1>7. \/ StopBeforePass = None /\ \A k \in 1..6 : ~checks[k][1]
      \/ \E k \in 1..6 : checks[k][1] /\ StopBeforePass = checks[k][2]
  BY <1>1, <1>2, <1>6, FirstReasonIs
<1>8. CASE StopBeforePass = None /\ \A k \in 1..6 : ~checks[k][1]
  BY <1>4, <1>5, <1>8
<1>9. CASE StopBeforePass \in Stopping
  BY <1>5, <1>9
<1>. QED  BY <1>3, <1>7, <1>8, <1>9

\* What is delivered.
LEMMA DeliverIs ==
  ASSUME NEW reason \in StopReason, Deliver(reason), current' \in Decided, initial \in Baselines
  PROVE  /\ outcome' \in [reason : StopReason, final : Decided]
         /\ outcome' \notin {NotStarted, Pending}
         /\ outcome'.reason = reason
         /\ outcome'.final = IF reason = "SUCCESS_COMPLETED" THEN current' ELSE initial
<1>1. outcome' = [reason |-> reason,
                  final |-> IF reason = "SUCCESS_COMPLETED" THEN current' ELSE initial]
  BY DEF Deliver
<1>2. initial \in Decided
  <2>1. <<>> \in Seq(Passes)
    OBVIOUS
  <2>. QED  BY <2>1 DEF Baselines, Decided
<1>3. outcome'.reason = reason /\ NotStarted.reason # reason /\ Pending.reason # reason
  BY <1>1 DEF NotStarted, Pending, StopReason, None
<1>. QED  BY <1>1, <1>2, <1>3

\* A run that is cut short delivers the baseline.
LEMMA CutShort ==
  ASSUME NEW reason \in Stopping, Deliver(reason), current' \in Decided, initial \in Baselines,
         initial' = initial
  PROVE  /\ PatchedOrBaseline' /\ Forgiven'
         /\ outcome' \in [reason : StopReason, final : Decided]
         /\ outcome' \notin {NotStarted, Pending}
<1>1. reason \in StopReason /\ reason # "SUCCESS_COMPLETED"
  BY DEF Stopping
<1>2. /\ outcome' \in [reason : StopReason, final : Decided]
      /\ outcome' \notin {NotStarted, Pending}
      /\ outcome'.reason = reason /\ outcome'.final = initial
  BY <1>1, DeliverIs
<1>3. PatchedOrBaseline'
  BY <1>1, <1>2 DEF PatchedOrBaseline
<1>4. Forgiven'
  BY <1>2 DEF Forgiven
<1>. QED  BY <1>2, <1>3, <1>4

LEMMA BeginKeeps == RunInv /\ Begin => RunInv'
<1>. SUFFICES ASSUME RunInv, Begin PROVE RunInv'
  OBVIOUS
<1>. DEFINE checks == << <<plan.stop # None, plan.stop>>,
                         <<Len(plan.passes) > 5, "PASS_LIMIT_REACHED">> >>
            stop == FirstReason(checks)
<1>1. RunTypeOK /\ outcome = NotStarted
  BY DEF RunInv, Begin
<1>2. /\ input' = input /\ plan' = plan /\ context' = context /\ elapsed' = elapsed
      /\ strikes' = strikes /\ summaries' = summaries /\ initial' = initial /\ current' = current
      /\ remaining' = TotalBudget(input)
      /\ IF stop = None THEN outcome' = Pending ELSE Deliver(stop)
  BY DEF Begin
<1>3. current \in Decided /\ initial \in Baselines /\ current' \in Decided
  BY <1>1, <1>2 DEF RunTypeOK
<1>4. \/ stop = None /\ plan.stop = None
      \/ stop \in Stopping
  <2>1. Len(checks) = 2 /\ DOMAIN checks = 1..2 /\ Len(checks) \in Nat
    OBVIOUS
  <2>2. /\ checks[1][1] <=> plan.stop # None
        /\ checks[1][2] = plan.stop /\ checks[2][2] = "PASS_LIMIT_REACHED"
    OBVIOUS
  <2>3. "PASS_LIMIT_REACHED" \in Stopping
    BY DEF Stopping, StopReason
  <2>4. plan.stop \in Stopping \cup {None}
    BY <1>1, PlanTyped
  <2>. HIDE DEF checks
  <2>5. \/ stop = None /\ \A k \in 1..Len(checks) : ~checks[k][1]
        \/ \E k \in 1..Len(checks) : checks[k][1] /\ stop = checks[k][2]
    BY <2>1, FirstReasonIs
  <2>. HIDE DEF stop
  <2>. QED  BY <2>1, <2>2, <2>3, <2>4, <2>5
<1>. HIDE DEF stop
<1>5. RunTypeOK' /\ PatchedOrBaseline' /\ Forgiven'
  <2>1. CASE stop \in Stopping
    <3>1. Deliver(stop)
      BY <1>2, <2>1 DEF None, Stopping, StopReason
    <3>2. /\ PatchedOrBaseline' /\ Forgiven'
          /\ outcome' \in [reason : StopReason, final : Decided]
      BY <1>2, <1>3, <2>1, <3>1, CutShort
    <3>. QED  BY <1>1, <1>2, <3>2, PlanTyped DEF RunTypeOK
  <2>2. CASE stop = None
    <3>1. outcome' = Pending
      BY <1>2, <2>2
    <3>2. PatchedOrBaseline'
      BY <3>1 DEF PatchedOrBaseline, Over
    <3>3. Forgiven'
      BY <1>1, <1>2, <3>1 DEF RunInv, Forgiven
    <3>. QED  BY <1>1, <1>2, <3>1, <3>2, <3>3, PlanTyped DEF RunTypeOK
  <2>. QED  BY <1>4, <2>1, <2>2
<1>6. Accounted'
  <2>1. summaries = <<>> /\ elapsed = Total(TimesOf(summaries, Len(summaries)))
    BY <1>1 DEF RunInv, Accounted
  <2>2. Total(CostsOf(summaries, Len(summaries))) = 0
    <3>1. CostsOf(summaries, Len(summaries)) \in Seq(Int)
          /\ Len(CostsOf(summaries, Len(summaries))) = 0
      BY <2>1 DEF CostsOf
    <3>. QED  BY <3>1, ShortTotals
  <2>3. TotalBudget(input) \in Int
    BY <1>1, PlanTyped
  <2>4. outcome' # NotStarted /\ (outcome' = Pending => stop = None /\ plan.stop = None)
    <3>1. CASE stop \in Stopping
      <4>1. Deliver(stop)
        BY <1>2, <3>1 DEF None, Stopping, StopReason
      <4>. QED  BY <1>2, <1>3, <3>1, <4>1, CutShort
    <3>2. CASE stop = None /\ plan.stop = None
      <4>1. Pending # NotStarted
        BY DEF NotStarted, Pending, None
      <4>. QED  BY <1>2, <3>2, <4>1
    <3>. QED  BY <1>4, <3>1, <3>2
  <2>. QED  BY <1>2, <2>1, <2>2, <2>3, <2>4 DEF Accounted
<1>7. Followed' /\ Patched' /\ OverdrawsOnePass'
  <2>1. Followed' /\ Patched'
    BY <1>2 DEF RunInv, Followed, Patched, Names, KeptOf
  <2>2. OverdrawsOnePass'
    BY <1>2 DEF RunInv, OverdrawsOnePass, TotalBudget, TotalTimeout, TimeGranted
  <2>. QED  BY <2>1, <2>2
<1>. QED  BY <1>5, <1>6, <1>7 DEF RunInv

LEMMA StopKeeps == RunInv /\ Stop => RunInv'
<1>. SUFFICES ASSUME RunInv, Stop PROVE RunInv'
  OBVIOUS
<1>1. RunTypeOK /\ outcome = Pending /\ StopBeforePass \in Stopping
  BY StopBeforePassIs DEF RunInv, Stop, Running
<1>2. /\ input' = input /\ plan' = plan /\ context' = context /\ elapsed' = elapsed
      /\ strikes' = strikes /\ summaries' = summaries /\ initial' = initial /\ current' = current
      /\ remaining' = remaining /\ Deliver(StopBeforePass)
  BY DEF Stop
<1>3. current' \in Decided /\ initial \in Baselines
  BY <1>1, <1>2 DEF RunTypeOK
<1>4. /\ PatchedOrBaseline' /\ Forgiven'
      /\ outcome' \in [reason : StopReason, final : Decided]
      /\ outcome' \notin {NotStarted, Pending}
  BY <1>1, <1>2, <1>3, CutShort
<1>5. RunTypeOK'
  BY <1>1, <1>2, <1>4 DEF RunTypeOK
<1>6. Accounted' /\ Followed' /\ Patched'
  BY <1>2, <1>4 DEF RunInv, Accounted, Followed, Patched, Names, KeptOf
<1>7. OverdrawsOnePass'
  BY <1>2 DEF RunInv, OverdrawsOnePass, TotalBudget, TotalTimeout, TimeGranted
<1>. QED  BY <1>4, <1>5, <1>6, <1>7 DEF RunInv

\* A whole plan has a summary for each of its passes.
LEMMA CompleteKeeps == RunInv /\ Complete => RunInv'
<1>. SUFFICES ASSUME RunInv, Complete PROVE RunInv'
  OBVIOUS
<1>1. RunTypeOK /\ outcome = Pending /\ ~(Len(summaries) < Len(plan.passes))
  BY DEF RunInv, Complete, Running, PassesLeft
<1>2. /\ input' = input /\ plan' = plan /\ context' = context /\ elapsed' = elapsed
      /\ strikes' = strikes /\ summaries' = summaries /\ initial' = initial /\ current' = current
      /\ remaining' = remaining /\ Deliver("SUCCESS_COMPLETED")
  BY DEF Complete
<1>3. current' \in Decided /\ initial \in Baselines
  BY <1>1, <1>2 DEF RunTypeOK
<1>4. /\ outcome' \in [reason : StopReason, final : Decided]
      /\ outcome' \notin {NotStarted, Pending}
      /\ outcome'.reason = "SUCCESS_COMPLETED" /\ outcome'.final = current
  <2>1. "SUCCESS_COMPLETED" \in StopReason
    BY DEF StopReason
  <2>. QED  BY <1>2, <1>3, <2>1, DeliverIs
<1>5. RunTypeOK' /\ Forgiven'
  BY <1>1, <1>2, <1>4 DEF RunTypeOK, Forgiven
<1>6. Accounted' /\ Followed' /\ Patched'
  BY <1>2, <1>4 DEF RunInv, Accounted, Followed, Patched, Names, KeptOf
<1>7. OverdrawsOnePass'
  BY <1>2 DEF RunInv, OverdrawsOnePass, TotalBudget, TotalTimeout, TimeGranted
<1>8. [n \in DOMAIN summaries |-> summaries[n].pass] = plan.passes
  <2>1. plan.passes \in Seq(Passes) /\ summaries \in Seq(PassSummary)
        /\ Len(summaries) = Len(plan.passes)
    <3>1. /\ summaries \in Seq(PassSummary) /\ Len(summaries) <= Len(plan.passes)
          /\ plan.passes \in Seq(Passes)
      BY <1>1, PlanTyped DEF RunTypeOK
    <3>. QED  BY <1>1, <3>1
  <2>2. \A n \in 1..Len(summaries) : summaries[n].pass = plan.passes[n]
    BY DEF RunInv, Followed
  <2>3. DOMAIN summaries = 1..Len(summaries) /\ DOMAIN plan.passes = 1..Len(summaries)
    BY <2>1
  <2>4. plan.passes = [n \in 1..Len(summaries) |-> plan.passes[n]]
    BY <2>1, <2>3
  <2>. QED  BY <2>2, <2>3, <2>4
<1>9. /\ \A n \in DOMAIN summaries : summaries[n].patch # "raised"
      /\ RefusedOf(summaries) = {} \/ \E n \in DOMAIN summaries : RefusedOf(summaries) = {n}
  <2>1. strikes \in 0..2
    BY <1>1 DEF RunTypeOK
  <2>2. /\ strikes <= 1
        /\ \A n \in DOMAIN summaries : summaries[n].patch # "raised"
        /\ strikes = 0 => RefusedOf(summaries) = {}
        /\ strikes = 1 => \E n \in DOMAIN summaries : RefusedOf(summaries) = {n}
    BY <1>1 DEF RunInv, Forgiven
  <2>. QED  BY <2>1, <2>2
<1>10. PatchedOrBaseline'
  <2>1. Patched
    BY DEF RunInv
  <2>. QED  BY <1>2, <1>4, <1>8, <1>9, <2>1 DEF PatchedOrBaseline, Patched, Names, KeptOf, RefusedOf
<1>. QED  BY <1>5, <1>6, <1>7, <1>10 DEF RunInv

\* A pass that runs is the plan's next, within the budget and the time.
LEMMA PassAdds ==
  ASSUME RunInv, CanRunPass, NEW s \in PassSummary, s.pass = NextPass,
         summaries' = Append(summaries, s), input' = input, plan' = plan
  PROVE  /\ summaries' \in Seq(PassSummary) /\ Len(summaries') <= Len(plan.passes)
         /\ Followed' /\ OverdrawsOnePass'
         /\ Total(CostsOf(summaries', Len(summaries')))
               = TotalBudget(input) - remaining + s.cost
         /\ Total(TimesOf(summaries', Len(summaries'))) = elapsed + s.time
         /\ summaries' # <<>>
<1>1. RunTypeOK /\ outcome = Pending /\ Len(summaries) < Len(plan.passes) /\ StopBeforePass = None
  BY DEF RunInv, CanRunPass, Running, PassesLeft
<1>2. summaries \in Seq(PassSummary) /\ remaining \in Int /\ elapsed \in Nat
  BY <1>1 DEF RunTypeOK
<1>3. /\ summaries' \in Seq(PassSummary) /\ Len(summaries') = Len(summaries) + 1
      /\ summaries'[Len(summaries) + 1] = s
      /\ \A n \in 1..Len(summaries) : summaries'[n] = summaries[n]
      /\ \A n \in 0..Len(summaries) : /\ CostsOf(summaries', n) = CostsOf(summaries, n)
                                      /\ TimesOf(summaries', n) = TimesOf(summaries, n)
      /\ Total(CostsOf(summaries', Len(summaries')))
            = Total(CostsOf(summaries, Len(summaries))) + s.cost
      /\ Total(TimesOf(summaries', Len(summaries')))
            = Total(TimesOf(summaries, Len(summaries))) + s.time
  <2>1. summaries' = Append(summaries, s)
    OBVIOUS
  <2>2. Grown(summaries, s, summaries')
    BY <1>2, <2>1, CostsMore
  <2>. QED  BY <2>2 DEF Grown
<1>4. /\ plan.stop = None /\ elapsed = Total(TimesOf(summaries, Len(summaries)))
      /\ remaining = TotalBudget(input) - Total(CostsOf(summaries, Len(summaries)))
  BY <1>1 DEF RunInv, Accounted
<1>5. /\ TotalBudget(input) \in Int /\ Total(plan.timeouts) \in Int
      /\ Total(plan.timeouts) <= TimeGranted /\ TimeGranted \in Nat
      /\ Len(plan.passes) \in Nat /\ plan.passes \in Seq(Passes)
  BY <1>1, <1>4, PlanTyped
<1>6. Total(CostsOf(summaries, Len(summaries))) \in Int
  <2>1. CostsOf(summaries, Len(summaries)) \in Seq(Nat) /\ Len(summaries) \in 0..Len(summaries)
    BY <1>2, CostsTyped
  <2>2. CostsOf(summaries, Len(summaries)) \in Seq(Int)
    BY <2>1
  <2>. QED  BY <2>2, TotalIsInt
<1>7. Followed'
  <2>1. \A n \in 1..Len(summaries) : summaries[n].pass = plan.passes[n]
    BY DEF RunInv, Followed
  <2>2. \A n \in 1..Len(summaries') : n \in 1..Len(summaries) \/ n = Len(summaries) + 1
    BY <1>2, <1>3
  <2>3. \A n \in 1..Len(summaries') : summaries'[n].pass = plan.passes[n]
    BY <1>3, <2>1, <2>2 DEF NextPass
  <2>. QED  BY <2>3 DEF Followed
<1>8. OverdrawsOnePass'
  <2>1. ~(remaining <= 0) /\ ~(elapsed >= Total(plan.timeouts))
    BY <1>1, StopBeforePassIs
  <2>2. \A n \in DOMAIN summaries : /\ Total(CostsOf(summaries, n - 1)) < TotalBudget(input)
                                   /\ Total(TimesOf(summaries, n - 1)) < TimeGranted
    BY DEF RunInv, OverdrawsOnePass, CostsOf, TimesOf
  <2>3. /\ Total(CostsOf(summaries, Len(summaries))) < TotalBudget(input)
        /\ Total(TimesOf(summaries, Len(summaries))) < TimeGranted
    BY <1>2, <1>4, <1>5, <1>6, <2>1
  <2>4. ASSUME NEW n \in DOMAIN summaries'
        PROVE  /\ Total(CostsOf(summaries', n - 1)) < TotalBudget(input)
               /\ Total(TimesOf(summaries', n - 1)) < TimeGranted
    <3>1. /\ n - 1 \in 0..Len(summaries)
          /\ n \in DOMAIN summaries \/ n - 1 = Len(summaries)
      BY <1>2, <1>3
    <3>2. /\ CostsOf(summaries', n - 1) = CostsOf(summaries, n - 1)
          /\ TimesOf(summaries', n - 1) = TimesOf(summaries, n - 1)
      BY <1>3, <3>1
    <3>. QED  BY <2>2, <2>3, <3>1, <3>2
  <2>5. TotalBudget(input)' = TotalBudget(input) /\ TimeGranted' = TimeGranted
    BY DEF TotalBudget, TimeGranted, TotalTimeout
  <2>. QED  BY <2>4, <2>5 DEF OverdrawsOnePass, CostsOf, TimesOf
<1>9. summaries' # <<>>
  BY <1>2, <1>3
<1>10. s.cost \in Int /\ s.time \in Int
  BY SummaryTyped
<1>11. Total(CostsOf(summaries', Len(summaries'))) = TotalBudget(input) - remaining + s.cost
  BY <1>2, <1>3, <1>4, <1>5, <1>6, <1>10
<1>12. Total(TimesOf(summaries', Len(summaries'))) = elapsed + s.time
  BY <1>3, <1>4
<1>13. Len(summaries') <= Len(plan.passes)
  BY <1>1, <1>2, <1>3, <1>5
<1>. QED  BY <1>3, <1>7, <1>8, <1>9, <1>11, <1>12, <1>13

LEMMA NextPassTyped ==
  ASSUME RunTypeOK, CanRunPass
  PROVE  NextPass \in Passes
<1>1. /\ summaries \in Seq(PassSummary) /\ Len(summaries) < Len(plan.passes)
      /\ plan.passes \in Seq(Passes) /\ Len(plan.passes) \in Nat
  BY PlanTyped DEF RunTypeOK, CanRunPass, PassesLeft
<1>2. Len(summaries) + 1 \in 1..Len(plan.passes)
  BY <1>1
<1>. QED  BY <1>1, <1>2 DEF NextPass

\* A summary of the next pass.
LEMMA SummaryIs ==
  ASSUME NEW pass \in Passes, NEW patch \in Patches, NEW applied \in BOOLEAN,
         NEW cost \in Costs \cup {0}, NEW time \in Times
  PROVE  /\ Summary(pass, patch, applied, cost, time) \in PassSummary
         /\ Summary(pass, patch, applied, cost, time).pass = pass
         /\ Summary(pass, patch, applied, cost, time).patch = patch
         /\ Summary(pass, patch, applied, cost, time).applied = applied
         /\ Summary(pass, patch, applied, cost, time).cost = cost
         /\ Summary(pass, patch, applied, cost, time).time = time
BY DEF Summary, PassSummary

LEMMA PassRaisesKeeps == ASSUME RunInv, NEW time \in Times, PassRaises(time) PROVE RunInv'
<1>. DEFINE s == Summary(NextPass, "raised", FALSE, 0, time)
<1>1. RunTypeOK /\ outcome = Pending /\ CanRunPass
  BY DEF RunInv, PassRaises, CanRunPass, Running
<1>2. /\ input' = input /\ plan' = plan /\ context' = context /\ elapsed' = elapsed + time
      /\ strikes' = strikes /\ summaries' = Append(summaries, s) /\ initial' = initial
      /\ current' = current /\ remaining' = remaining /\ Deliver("INTERNAL_INCONSISTENCY")
  BY DEF PassRaises
<1>3. /\ s \in PassSummary /\ s.pass = NextPass /\ s.applied = FALSE /\ s.time = time
      /\ s.cost = 0
  <2>1. NextPass \in Passes /\ "raised" \in Patches /\ 0 \in Costs \cup {0}
    BY <1>1, NextPassTyped DEF Patches
  <2>2. FALSE \in BOOLEAN
    OBVIOUS
  <2>3. /\ s \in PassSummary /\ s.pass = NextPass /\ s.time = time /\ s.cost = 0
        /\ s.patch = "raised"
    BY <2>1, <2>2 DEF Summary, PassSummary
  <2>4. s.applied = FALSE
    BY DEF Summary
  <2>. QED  BY <2>3, <2>4
<1>. HIDE DEF s
<1>4. /\ summaries' \in Seq(PassSummary) /\ Len(summaries') <= Len(plan.passes)
      /\ Followed' /\ OverdrawsOnePass' /\ summaries' # <<>>
      /\ Total(TimesOf(summaries', Len(summaries'))) = elapsed + s.time
  BY <1>1, <1>2, <1>3, PassAdds
<1>5. /\ PatchedOrBaseline' /\ Forgiven'
      /\ outcome' \in [reason : StopReason, final : Decided]
      /\ outcome' \notin {NotStarted, Pending}
  <2>1. current' \in Decided /\ initial \in Baselines
    BY <1>1, <1>2 DEF RunTypeOK
  <2>2. "INTERNAL_INCONSISTENCY" \in Stopping
    BY DEF Stopping, StopReason
  <2>. QED  BY <1>2, <2>1, <2>2, CutShort
<1>6. RunTypeOK'
  <2>1. elapsed' \in Nat
    BY <1>1, <1>2, DeepThinkSettings DEF RunTypeOK
  <2>. QED  BY <1>1, <1>2, <1>4, <1>5, <2>1 DEF RunTypeOK
<1>7. Accounted'
  BY <1>2, <1>3, <1>4, <1>5 DEF Accounted
<1>8. Patched'
  <2>1. /\ Names(current.by, summaries) /\ current.by \in Seq(Passes)
        /\ current.action \in DecisionAction \cup {initial.action}
        /\ summaries \in Seq(PassSummary)
    BY <1>1 DEF RunInv, Patched, RunTypeOK, Decided
  <2>2. Names(current.by, Append(summaries, s))
    BY <1>3, <2>1, NamesMore
  <2>. QED  BY <1>2, <2>1, <2>2 DEF Patched
<1>. QED  BY <1>4, <1>5, <1>6, <1>7, <1>8 DEF RunInv

LEMMA PassFailsKeeps ==
  ASSUME RunInv, NEW cost \in Costs, NEW time \in Times, PassFails(cost, time)
  PROVE  RunInv'
<1>. DEFINE s == Summary(NextPass, "error", FALSE, cost, time)
<1>1. RunTypeOK /\ outcome = Pending /\ CanRunPass
  BY DEF RunInv, PassFails, CanRunPass, Running
<1>2. /\ input' = input /\ plan' = plan /\ context' = context /\ elapsed' = elapsed + time
      /\ strikes' = strikes /\ summaries' = Append(summaries, s) /\ initial' = initial
      /\ current' = current /\ remaining' = remaining - cost /\ outcome' = outcome
  BY DEF PassFails
<1>3. /\ s \in PassSummary /\ s.pass = NextPass /\ s.applied = FALSE /\ s.time = time
      /\ s.cost = cost /\ s.patch = "error"
  <2>1. NextPass \in Passes /\ "error" \in Patches /\ cost \in Costs \cup {0}
    BY <1>1, NextPassTyped DEF Patches
  <2>2. FALSE \in BOOLEAN
    OBVIOUS
  <2>3. /\ s \in PassSummary /\ s.pass = NextPass /\ s.time = time /\ s.cost = cost
        /\ s.patch = "error"
    BY <2>1, <2>2 DEF Summary, PassSummary
  <2>4. s.applied = FALSE
    BY DEF Summary
  <2>. QED  BY <2>3, <2>4
<1>. HIDE DEF s
<1>4. /\ summaries' \in Seq(PassSummary) /\ Len(summaries') <= Len(plan.passes)
      /\ Followed' /\ OverdrawsOnePass' /\ summaries' # <<>>
      /\ Total(CostsOf(summaries', Len(summaries'))) = TotalBudget(input) - remaining + s.cost
      /\ Total(TimesOf(summaries', Len(summaries'))) = elapsed + s.time
  BY <1>1, <1>2, <1>3, PassAdds
<1>5. cost \in Nat /\ time \in Nat /\ remaining \in Int /\ elapsed \in Nat /\ TotalBudget(input) \in Int
  BY <1>1, DeepThinkSettings, PlanTyped DEF RunTypeOK
<1>6. RunTypeOK'
  <2>1. elapsed' \in Nat /\ remaining' \in Int
    BY <1>2, <1>5
  <2>. QED  BY <1>1, <1>2, <1>4, <2>1 DEF RunTypeOK
<1>7. Accounted'
  <2>1. plan'.stop = None /\ outcome' = Pending /\ summaries' # <<>>
    BY <1>1, <1>2, <1>4 DEF RunInv, Accounted
  <2>2. remaining' = TotalBudget(input) - Total(CostsOf(summaries', Len(summaries')))
    BY <1>2, <1>3, <1>4, <1>5
  <2>3. elapsed' = Total(TimesOf(summaries', Len(summaries')))
    BY <1>2, <1>3, <1>4
  <2>4. Pending # NotStarted
    BY DEF Pending, NotStarted, None
  <2>. QED  BY <1>2, <2>1, <2>2, <2>3, <2>4 DEF Accounted
<1>8. Patched'
  <2>1. /\ Names(current.by, summaries) /\ current.by \in Seq(Passes)
        /\ current.action \in DecisionAction \cup {initial.action}
        /\ summaries \in Seq(PassSummary)
    BY <1>1 DEF RunInv, Patched, RunTypeOK, Decided
  <2>2. Names(current.by, Append(summaries, s))
    BY <1>3, <2>1, NamesMore
  <2>. QED  BY <1>2, <2>1, <2>2 DEF Patched
<1>9. Forgiven'
  <2>1. summaries \in Seq(PassSummary)
    BY <1>1 DEF RunTypeOK
  <2>2. /\ RefusedOf(summaries') = RefusedOf(summaries)
        /\ DOMAIN summaries' = DOMAIN summaries \cup {Len(summaries) + 1}
    BY <1>2, <1>3, <2>1, SetsMore
  <2>3. \A n \in DOMAIN summaries' : summaries'[n].patch # "raised"
    <3>1. \A n \in DOMAIN summaries : summaries[n].patch # "raised" /\ summaries'[n] = summaries[n]
      BY <1>1, <1>2, <1>3, <2>1, CostsMore DEF RunInv, Forgiven, Grown
    <3>2. summaries'[Len(summaries) + 1] = s
      BY <1>2, <1>3, <2>1, CostsMore DEF Grown
    <3>. QED  BY <1>3, <2>2, <3>1, <3>2
  <2>. QED  BY <1>1, <1>2, <2>2, <2>3 DEF RunInv, Forgiven
<1>10. PatchedOrBaseline'
  BY <1>1, <1>2 DEF PatchedOrBaseline, Over
<1>. QED  BY <1>4, <1>6, <1>7, <1>8, <1>9, <1>10 DEF RunInv

LEMMA PassProposesKeeps ==
  ASSUME RunInv, NEW patch \in Actions \cup {"keep", "foreign"}, NEW cost \in Costs,
         NEW time \in Times, PassProposes(patch, cost, time)
  PROVE  RunInv'
<1>. DEFINE s == Summary(NextPass, patch, Valid(patch), cost, time)
<1>1. RunTypeOK /\ outcome = Pending /\ CanRunPass
  BY DEF RunInv, PassProposes, CanRunPass, Running
<1>2. /\ input' = input /\ plan' = plan /\ context' = context /\ elapsed' = elapsed + time
      /\ strikes' = IF Valid(patch) THEN strikes ELSE strikes + 1
      /\ summaries' = Append(summaries, s) /\ initial' = initial
      /\ current' = IF Valid(patch) THEN Applied(current, NextPass, patch) ELSE current
      /\ remaining' = remaining - cost
      /\ IF OutOfStrikes(strikes') THEN Deliver("VALIDATION_FAIL") ELSE outcome' = outcome
  BY DEF PassProposes
<1>3. /\ s \in PassSummary /\ s.pass = NextPass /\ s.applied = Valid(patch) /\ s.time = time
      /\ s.cost = cost /\ s.patch = patch /\ NextPass \in Passes /\ Valid(patch) \in BOOLEAN
  <2>1. NextPass \in Passes /\ patch \in Patches /\ Valid(patch) \in BOOLEAN
    BY <1>1, NextPassTyped DEF Patches, Valid
  <2>. QED  BY <2>1, SummaryIs
<1>. HIDE DEF s
<1>4. /\ summaries' \in Seq(PassSummary) /\ Len(summaries') <= Len(plan.passes)
      /\ Followed' /\ OverdrawsOnePass' /\ summaries' # <<>>
      /\ Total(CostsOf(summaries', Len(summaries'))) = TotalBudget(input) - remaining + s.cost
      /\ Total(TimesOf(summaries', Len(summaries'))) = elapsed + s.time
  BY <1>1, <1>2, <1>3, PassAdds
<1>5. cost \in Nat /\ time \in Nat /\ remaining \in Int /\ elapsed \in Nat /\ TotalBudget(input) \in Int
  BY <1>1, DeepThinkSettings, PlanTyped DEF RunTypeOK
<1>6. strikes \in {0, 1} /\ strikes' \in 0..2
  <2>1. strikes \in 0..2 /\ strikes <= 1
    BY <1>1 DEF RunTypeOK, RunInv, Forgiven
  <2>. QED  BY <1>2, <2>1
<1>7. /\ current \in Decided /\ current.by \in Seq(Passes) /\ initial \in Baselines
      /\ summaries \in Seq(PassSummary) /\ Names(current.by, summaries)
      /\ current.action \in DecisionAction \cup {initial.action}
  BY <1>1 DEF RunInv, Patched, RunTypeOK, Decided
<1>8. /\ current' \in Decided
      /\ current'.by = IF s.applied THEN Append(current.by, s.pass) ELSE current.by
      /\ current'.action \in DecisionAction \cup {initial.action}
  <2>1. CASE Valid(patch)
    <3>1. current' = [action |-> IF patch = "keep" THEN current.action ELSE patch,
                      by |-> Append(current.by, NextPass)]
      BY <1>2, <2>1 DEF Applied
    <3>2. patch = "keep" \/ patch \in DecisionAction
      BY <2>1 DEF Valid
    <3>3. DecisionAction \subseteq Actions /\ current.action \in Actions
      BY <1>7 DEF DecisionAction, Actions, Decided
    <3>4. Append(current.by, NextPass) \in Seq(Passes)
      BY <1>3, <1>7
    <3>. QED  BY <1>3, <1>7, <2>1, <3>1, <3>2, <3>3, <3>4 DEF Decided
  <2>2. CASE ~Valid(patch)
    BY <1>2, <1>3, <1>7, <2>2
  <2>. QED  BY <2>1, <2>2
<1>9. \/ /\ outcome' \in [reason : StopReason, final : Decided] /\ outcome' \notin {NotStarted, Pending}
         /\ PatchedOrBaseline' /\ Forgiven'
      \/ outcome' = Pending /\ strikes' <= 1
  <2>1. CASE OutOfStrikes(strikes')
    <3>1. Deliver("VALIDATION_FAIL") /\ "VALIDATION_FAIL" \in Stopping
      BY <1>2, <2>1 DEF Stopping, StopReason
    <3>. QED  BY <1>2, <1>7, <1>8, <3>1, CutShort
  <2>2. CASE ~OutOfStrikes(strikes')
    BY <1>1, <1>2, <1>6, <2>2 DEF OutOfStrikes
  <2>. QED  BY <2>1, <2>2
<1>10. RunTypeOK'
  <2>1. elapsed' \in Nat /\ remaining' \in Int
    BY <1>2, <1>5
  <2>2. outcome' \in {NotStarted, Pending} \cup [reason : StopReason, final : Decided]
    BY <1>9
  <2>. QED  BY <1>1, <1>2, <1>4, <1>6, <1>8, <2>1, <2>2 DEF RunTypeOK
<1>11. Accounted'
  <2>1. plan'.stop = None /\ summaries' # <<>>
    BY <1>1, <1>2, <1>4 DEF RunInv, Accounted
  <2>2. remaining' = TotalBudget(input) - Total(CostsOf(summaries', Len(summaries')))
    BY <1>2, <1>3, <1>4, <1>5
  <2>3. elapsed' = Total(TimesOf(summaries', Len(summaries')))
    BY <1>2, <1>3, <1>4
  <2>4. outcome' # NotStarted
    <3>1. Pending # NotStarted
      BY DEF Pending, NotStarted, None
    <3>. QED  BY <1>9, <3>1
  <2>. QED  BY <1>2, <2>1, <2>2, <2>3, <2>4 DEF Accounted
<1>12. Patched'
  <2>1. Names(IF s.applied THEN Append(current.by, s.pass) ELSE current.by, Append(summaries, s))
    BY <1>3, <1>7, NamesMore
  <2>. QED  BY <1>2, <1>8, <2>1 DEF Patched
<1>13. Forgiven'
  <2>1. SUFFICES ASSUME outcome' = Pending, strikes' <= 1 PROVE Forgiven'
    BY <1>9
  <2>2. /\ RefusedOf(summaries') = IF ~s.applied /\ s.patch # "error"
                                  THEN RefusedOf(summaries) \cup {Len(summaries) + 1}
                                  ELSE RefusedOf(summaries)
        /\ DOMAIN summaries' = DOMAIN summaries \cup {Len(summaries) + 1}
    BY <1>2, <1>3, <1>7, SetsMore
  <2>3. s.patch # "error" /\ s.patch # "raised"
    BY <1>3 DEF Actions
  <2>4. \A n \in DOMAIN summaries' : summaries'[n].patch # "raised"
    <3>1. \A n \in DOMAIN summaries : summaries[n].patch # "raised" /\ summaries'[n] = summaries[n]
      BY <1>1, <1>2, <1>3, <1>7, CostsMore DEF RunInv, Forgiven, Grown
    <3>2. summaries'[Len(summaries) + 1] = s
      BY <1>2, <1>3, <1>7, CostsMore DEF Grown
    <3>. QED  BY <2>2, <2>3, <3>1, <3>2
  <2>5. /\ strikes = 0 => RefusedOf(summaries) = {}
        /\ strikes = 1 => \E n \in DOMAIN summaries : RefusedOf(summaries) = {n}
    BY <1>1 DEF RunInv, Forgiven
  <2>6. CASE Valid(patch)
    <3>1. strikes' = strikes /\ RefusedOf(summaries') = RefusedOf(summaries)
      BY <1>2, <1>3, <2>2, <2>6
    <3>. QED  BY <2>1, <2>2, <2>4, <2>5, <3>1 DEF Forgiven
  <2>7. CASE ~Valid(patch)
    <3>1. strikes' = strikes + 1 /\ RefusedOf(summaries') = RefusedOf(summaries) \cup {Len(summaries) + 1}
      BY <1>2, <1>3, <2>2, <2>3, <2>7
    <3>2. strikes = 0 /\ strikes' = 1
      BY <1>6, <2>1, <3>1
    <3>3. RefusedOf(summaries') = {Len(summaries) + 1} /\ Len(summaries) + 1 \in DOMAIN summaries'
      BY <2>2, <2>5, <3>1, <3>2
    <3>. QED  BY <2>1, <2>4, <3>2, <3>3 DEF Forgiven
  <2>. QED  BY <2>6, <2>7
<1>14. PatchedOrBaseline'
  <2>1. outcome' = Pending => PatchedOrBaseline'
    BY DEF PatchedOrBaseline, Over
  <2>. QED  BY <1>9, <2>1
<1>. QED  BY <1>4, <1>10, <1>11, <1>12, <1>13, <1>14 DEF RunInv

LEMMA RunStepInv == RunInv /\ [RunStep]_runVars => RunInv'
<1>. SUFFICES ASSUME RunInv, [RunStep]_runVars PROVE RunInv'
  OBVIOUS
<1>1. CASE Begin
  BY <1>1, BeginKeeps
<1>2. CASE Stop
  BY <1>2, StopKeeps
<1>3. CASE \E time \in Times : PassRaises(time)
  BY <1>3, PassRaisesKeeps
<1>4. CASE \E cost \in Costs, time \in Times : PassFails(cost, time)
  BY <1>4, PassFailsKeeps
<1>5. CASE \E cost \in Costs, time \in Times :
              \E patch \in Actions \cup {"keep", "foreign"} : PassProposes(patch, cost, time)
  BY <1>5, PassProposesKeeps
<1>6. CASE Complete
  BY <1>6, CompleteKeeps
<1>7. CASE UNCHANGED runVars
  <2>1. /\ input' = input /\ plan' = plan /\ context' = context /\ elapsed' = elapsed
        /\ strikes' = strikes /\ summaries' = summaries /\ initial' = initial
        /\ current' = current /\ remaining' = remaining /\ outcome' = outcome
    BY <1>7 DEF runVars
  <2>2. RunTypeOK' /\ Accounted' /\ Followed' /\ Forgiven' /\ Patched'
    BY <2>1 DEF RunInv, RunTypeOK, Accounted, Followed, Forgiven, Patched, Names, KeptOf
  <2>3. PatchedOrBaseline'
    BY <2>1 DEF RunInv, PatchedOrBaseline, Over
  <2>4. OverdrawsOnePass'
    BY <2>1 DEF RunInv, OverdrawsOnePass, TotalBudget, TotalTimeout, TimeGranted
  <2>. QED  BY <2>2, <2>3, <2>4 DEF RunInv
<1>. QED  BY <1>1, <1>2, <1>3, <1>4, <1>5, <1>6, <1>7 DEF RunStep

LEMMA RunInvHolds == RunSpec => []RunInv
<1>. QED  BY RunInitInv, RunStepInv, PTL DEF RunSpec

\* deepthink: a run keeps its types; in particular no third strike is ever counted and
\* no pass runs beyond the plan.
THEOREM RunTypeCorrect == RunSpec => []RunTypeOK
<1>1. RunInv => RunTypeOK
  BY DEF RunInv
<1>. QED  BY <1>1, RunInvHolds, PTL

\* deepthink/engine.py, run_engine: for any settings, inputs, costs and times the caller
\* gets the baseline untouched or the patches of a whole plan, in order.
THEOREM RunsPatchOrFallBack == RunSpec => []PatchedOrBaseline
<1>1. RunInv => PatchedOrBaseline
  BY DEF RunInv
<1>. QED  BY <1>1, RunInvHolds, PTL

\* deepthink/router.py, _allocate_resource, with engine.py, _check_stop_conditions: raised
\* as they are, the shares of a plan exceed the timeout by one least share at most, and no
\* pass starts on a spent budget or after that time.
THEOREM RunsOverdrawOnePass == RunSpec => []OverdrawsOnePass
<1>1. RunInv => OverdrawsOnePass
  BY DEF RunInv
<1>. QED  BY <1>1, RunInvHolds, PTL

-----------------------------------------------------------------------------
(* The model pipeline: what the classifiers read.                            *)

\* The value a classifier settles on: the default when nothing of the order is marked,
\* and otherwise the first that is.
Settled(value, n, order, marks, otherwise) ==
  \/ value = otherwise /\ \A k \in 1..n : order[k] \notin marks
  \/ \E k \in 1..n : /\ value = order[k]
                     /\ \A j \in 1..n : order[j] \in marks => k <= j

LEMMA FirstOfIs ==
  ASSUME NEW n \in Nat, NEW order, DOMAIN order = 1..n, NEW marks, NEW otherwise
  PROVE  Settled(FirstOf(order, marks, otherwise), n, order, marks, otherwise)
<1>. DEFINE hits == {k \in DOMAIN order : order[k] \in marks}
<1>1. CASE hits = {}
  BY <1>1 DEF FirstOf, Settled
<1>2. CASE hits # {}
  <2>1. hits \in SUBSET Nat
    OBVIOUS
  <2>2. Least(hits) \in hits /\ \A j \in hits : Least(hits) <= j
    BY <1>2, <2>1, LeastIs
  <2>3. FirstOf(order, marks, otherwise) = order[Least(hits)]
    BY <1>2 DEF FirstOf, Least
  <2>. QED  BY <2>2, <2>3 DEF Settled
<1>. QED  BY <1>1, <1>2

\* The two classifiers an answer depends on miss none of the markers that rule one out.
ProximityRead(p, m) ==
  /\ p \in {"VERY_LOW", "LOW", "MEDIUM", "HIGH", "IMMINENT"}
  /\ p \in {"VERY_LOW", "LOW"} => m.proximity \cap {"MEDIUM", "HIGH", "IMMINENT"} = {}

LEMMA ProximityIs ==
  ASSUME NEW m \in Messages
  PROVE  ProximityRead(ClassifyProximity(m), m)
<1>. DEFINE order == <<"IMMINENT", "HIGH", "MEDIUM", "LOW">>
<1>1. DOMAIN order = 1..4 /\ 4 \in Nat
  OBVIOUS
<1>2. order[1] = "IMMINENT" /\ order[2] = "HIGH" /\ order[3] = "MEDIUM" /\ order[4] = "LOW"
  OBVIOUS
<1>3. ClassifyProximity(m) = FirstOf(order, m.proximity, "VERY_LOW")
  BY DEF ClassifyProximity
<1>. HIDE DEF order
<1>4. Settled(ClassifyProximity(m), 4, order, m.proximity, "VERY_LOW")
  BY <1>1, <1>3, FirstOfIs
<1>5. CASE ClassifyProximity(m) = "VERY_LOW" /\ \A k \in 1..4 : order[k] \notin m.proximity
  BY <1>2, <1>5 DEF ProximityRead
<1>6. ASSUME NEW k \in 1..4, ClassifyProximity(m) = order[k],
             \A j \in 1..4 : order[j] \in m.proximity => k <= j
      PROVE  ProximityRead(ClassifyProximity(m), m)
  <2>1. k < 4 => order[k] \in {"MEDIUM", "HIGH", "IMMINENT"}
    BY <1>2
  <2>2. k = 4 => order[k] = "LOW" /\ order[1] \notin m.proximity
                  /\ order[2] \notin m.proximity /\ order[3] \notin m.proximity
    BY <1>2, <1>6
  <2>. QED  BY <1>2, <1>6, <2>1, <2>2 DEF ProximityRead
<1>. QED  BY <1>4, <1>5, <1>6 DEF Settled

ReversibilityRead(v, m) ==
  /\ v \in {"EASILY_REVERSIBLE", "COSTLY_REVERSIBLE", "IRREVERSIBLE", "UNKNOWN"}
  /\ v # "IRREVERSIBLE" => "IRREVERSIBLE" \notin m.reversibility

LEMMA ReversibilityIs ==
  ASSUME NEW m \in Messages
  PROVE  ReversibilityRead(ClassifyReversibility(m), m)
<1>. DEFINE order == <<"IRREVERSIBLE", "COSTLY_REVERSIBLE", "EASILY_REVERSIBLE">>
<1>1. DOMAIN order = 1..3 /\ 3 \in Nat
  OBVIOUS
<1>2. order[1] = "IRREVERSIBLE" /\ order[2] = "COSTLY_REVERSIBLE" /\ order[3] = "EASILY_REVERSIBLE"
  OBVIOUS
<1>3. ClassifyReversibility(m) = FirstOf(order, m.reversibility, "UNKNOWN")
  BY DEF ClassifyReversibility
<1>. HIDE DEF order
<1>4. Settled(ClassifyReversibility(m), 3, order, m.reversibility, "UNKNOWN")
  BY <1>1, <1>3, FirstOfIs
<1>. QED  BY <1>2, <1>4 DEF Settled, ReversibilityRead

LEMMA HorizonIs ==
  ASSUME NEW m \in Messages
  PROVE  ClassifyHorizon(m) \in {"SHORT_HORIZON", "MEDIUM_HORIZON", "LONG_HORIZON", "UNKNOWN"}
<1>. DEFINE order == <<"LONG_HORIZON", "MEDIUM_HORIZON", "SHORT_HORIZON">>
<1>1. DOMAIN order = 1..3 /\ 3 \in Nat
  OBVIOUS
<1>2. order[1] = "LONG_HORIZON" /\ order[2] = "MEDIUM_HORIZON" /\ order[3] = "SHORT_HORIZON"
  OBVIOUS
<1>3. ClassifyHorizon(m) = FirstOf(order, m.horizon, "UNKNOWN")
  BY DEF ClassifyHorizon
<1>. HIDE DEF order
<1>4. Settled(ClassifyHorizon(m), 3, order, m.horizon, "UNKNOWN")
  BY <1>1, <1>3, FirstOfIs
<1>. QED  BY <1>2, <1>4 DEF Settled

LEMMA ScopeIs ==
  ASSUME NEW m \in Messages
  PROVE  ClassifyScope(m) \in {"SELF_ONLY", "SHARED", "THIRD_PARTY", "SYSTEMIC_PUBLIC", "UNKNOWN"}
<1>. DEFINE order == <<"SYSTEMIC_PUBLIC", "THIRD_PARTY", "SHARED", "SELF_ONLY">>
<1>1. DOMAIN order = 1..4 /\ 4 \in Nat
  OBVIOUS
<1>2. order[1] = "SYSTEMIC_PUBLIC" /\ order[2] = "THIRD_PARTY" /\ order[3] = "SHARED"
      /\ order[4] = "SELF_ONLY"
  OBVIOUS
<1>3. ClassifyScope(m) = FirstOf(order, m.scope, "UNKNOWN")
  BY DEF ClassifyScope
<1>. HIDE DEF order
<1>4. Settled(ClassifyScope(m), 4, order, m.scope, "UNKNOWN")
  BY <1>1, <1>3, FirstOfIs
<1>. QED  BY <1>2, <1>4 DEF Settled

\* The risks a state records: the marked domains, or the unknown one.
RisksOf(m) ==
  IF ClassifyDomains(m) = {} THEN {[domain |-> "UNKNOWN", confidence |-> "LOW"]}
  ELSE ClassifyDomains(m)

RisksTyped(risks) ==
  /\ risks \in SUBSET [domain : RiskDomain, confidence : {"LOW", "MEDIUM", "HIGH"}]
  /\ risks # {}
  /\ \A r, s \in risks : r.domain = s.domain => r = s

LEMMA RisksAreTyped ==
  ASSUME NEW m \in Messages
  PROVE  RisksTyped(RisksOf(m))
<1>1. m.risks \subseteq (RiskDomain \ {"UNKNOWN"}) \X {"MEDIUM", "HIGH"}
  BY PipelineInputs DEF MarkersFound
<1>2. CASE ClassifyDomains(m) = {}
  <2>1. RisksOf(m) = {[domain |-> "UNKNOWN", confidence |-> "LOW"]} /\ "UNKNOWN" \in RiskDomain
    BY <1>2 DEF RisksOf, RiskDomain
  <2>. QED  BY <2>1 DEF RisksTyped
<1>3. CASE ClassifyDomains(m) # {}
  <2>1. RisksOf(m) = ClassifyDomains(m)
    BY <1>3 DEF RisksOf
  <2>2. ASSUME NEW r \in ClassifyDomains(m)
        PROVE  \E mark \in m.risks :
                 /\ r = [domain |-> mark[1], confidence |-> mark[2]]
                 /\ mark[2] = "HIGH" \/ <<mark[1], "HIGH">> \notin m.risks
                 /\ mark = <<mark[1], mark[2]>>
                 /\ mark[1] \in RiskDomain /\ mark[2] \in {"MEDIUM", "HIGH"}
    BY <1>1 DEF ClassifyDomains
  <2>3. ASSUME NEW r \in ClassifyDomains(m)
        PROVE  r \in [domain : RiskDomain, confidence : {"LOW", "MEDIUM", "HIGH"}]
    <3>1. PICK a \in m.risks : /\ r = [domain |-> a[1], confidence |-> a[2]]
                               /\ a[1] \in RiskDomain /\ a[2] \in {"MEDIUM", "HIGH"}
      BY <2>2
    <3>. QED  BY <3>1
  <2>4. ASSUME NEW r \in ClassifyDomains(m), NEW s \in ClassifyDomains(m), r.domain = s.domain
        PROVE  r = s
    <3>1. PICK a \in m.risks : /\ r = [domain |-> a[1], confidence |-> a[2]]
                               /\ a[2] = "HIGH" \/ <<a[1], "HIGH">> \notin m.risks
                               /\ a = <<a[1], a[2]>>
                               /\ a[2] \in {"MEDIUM", "HIGH"}
      BY <2>2
    <3>2. PICK b \in m.risks : /\ s = [domain |-> b[1], confidence |-> b[2]]
                               /\ b[2] = "HIGH" \/ <<b[1], "HIGH">> \notin m.risks
                               /\ b = <<b[1], b[2]>>
                               /\ b[2] \in {"MEDIUM", "HIGH"}
      BY <2>2
    <3>3. a[1] = b[1]
      BY <2>4, <3>1, <3>2
    <3>4. a[2] = b[2]
      <4>1. a[2] = "HIGH" => <<b[1], "HIGH">> \in m.risks
        BY <3>1, <3>3
      <4>2. b[2] = "HIGH" => <<a[1], "HIGH">> \in m.risks
        BY <3>2, <3>3
      <4>. QED  BY <3>1, <3>2, <4>1, <4>2
    <3>. QED  BY <3>1, <3>2, <3>3, <3>4
  <2>. QED  BY <1>3, <2>1, <2>3, <2>4 DEF RisksTyped
<1>. QED  BY <1>2, <1>3

\* A marked domain that is critical is one the state holds to be critical.
ConfidenceRanks ==
  /\ RankIn(ConfidenceOrder, "LOW") = 1
  /\ RankIn(ConfidenceOrder, "MEDIUM") = 2
  /\ RankIn(ConfidenceOrder, "HIGH") = 3

LEMMA ConfidencesRanked == ConfidenceRanks
<1>1. /\ DOMAIN ConfidenceOrder = 1..3
      /\ ConfidenceOrder[1] = "LOW" /\ ConfidenceOrder[2] = "MEDIUM" /\ ConfidenceOrder[3] = "HIGH"
  BY DEF ConfidenceOrder
<1>2. ASSUME NEW i \in 1..3 PROVE RankIn(ConfidenceOrder, ConfidenceOrder[i]) = i
  <2>1. \A k \in 1..3 : ConfidenceOrder[k] = ConfidenceOrder[i] => k = i
    BY <1>1
  <2>2. RankIn(ConfidenceOrder, ConfidenceOrder[i]) \in 1..3
        /\ ConfidenceOrder[RankIn(ConfidenceOrder, ConfidenceOrder[i])] = ConfidenceOrder[i]
    BY <1>1 DEF RankIn
  <2>. QED  BY <2>1, <2>2
<1>3. 1 \in 1..3 /\ 2 \in 1..3 /\ 3 \in 1..3
  OBVIOUS
<1>. QED  BY <1>1, <1>2, <1>3 DEF ConfidenceRanks

LEMMA MarkedIsCritical ==
  ASSUME NEW m \in Messages, NEW d, d.risks = RisksOf(m), ~CriticalMedium(d)
  PROVE  MarkedRisks(m) \cap CriticalDomains = {}
<1>. SUFFICES ASSUME NEW mark \in m.risks, mark[1] \in CriticalDomains PROVE FALSE
  BY DEF MarkedRisks
<1>1. m.risks \subseteq (RiskDomain \ {"UNKNOWN"}) \X {"MEDIUM", "HIGH"}
  BY PipelineInputs DEF MarkersFound
<1>2. mark = <<mark[1], mark[2]>> /\ mark[2] \in {"MEDIUM", "HIGH"}
  BY <1>1
<1>3. PICK k \in m.risks : k[1] = mark[1] /\ (k[2] = "HIGH" \/ <<k[1], "HIGH">> \notin m.risks)
  <2>1. CASE <<mark[1], "HIGH">> \in m.risks
    <3>1. <<mark[1], "HIGH">>[1] = mark[1] /\ <<mark[1], "HIGH">>[2] = "HIGH"
      OBVIOUS
    <3>. QED  BY <2>1, <3>1
  <2>2. CASE <<mark[1], "HIGH">> \notin m.risks
    BY <2>2
  <2>. QED  BY <2>1, <2>2
<1>4. k[2] \in {"MEDIUM", "HIGH"}
  BY <1>1, <1>3
<1>. DEFINE r == [domain |-> k[1], confidence |-> k[2]]
<1>5. r \in ClassifyDomains(m)
  BY <1>3 DEF ClassifyDomains
<1>6. r \in d.risks
  BY <1>5 DEF RisksOf
<1>7. r.domain \in CriticalDomains /\ r.confidence \in {"MEDIUM", "HIGH"}
  BY <1>3, <1>4
<1>8. RankIn(ConfidenceOrder, r.confidence) >= RankIn(ConfidenceOrder, "MEDIUM")
  <2>. HIDE DEF r
  <2>. QED  BY <1>7, ConfidencesRanked DEF ConfidenceRanks
<1>. QED  BY <1>6, <1>7, <1>8 DEF CriticalMedium, HasCriticalDomain

LEMMA MediumIsLow ==
  ASSUME NEW d \in DecisionState, CriticalMedium(d)
  PROVE  CriticalLow(d)
<1>1. PICK r \in d.risks : /\ r.domain \in CriticalDomains
                           /\ RankIn(ConfidenceOrder, r.confidence) >= RankIn(ConfidenceOrder, "MEDIUM")
  BY DEF CriticalMedium, HasCriticalDomain
<1>2. r.confidence \in {"LOW", "MEDIUM", "HIGH"}
  BY DEF DecisionState
<1>3. RankIn(ConfidenceOrder, r.confidence) >= RankIn(ConfidenceOrder, "LOW")
  BY <1>2, ConfidencesRanked DEF ConfidenceRanks
<1>. QED  BY <1>1, <1>3 DEF CriticalLow, HasCriticalDomain

-----------------------------------------------------------------------------
(* The model pipeline: the assembly of the decision state.                   *)

\* A state every check accepts: each source of doubt is declared.
Declared(d) ==
  /\ d \in DecisionState
  /\ d.unknowns = UnknownSource
  /\ d.risks # {}
  /\ \A r, s \in d.risks : r.domain = s.domain => r = s

LEMMA RequiredIsKnown == ASSUME NEW d PROVE RequiredUnknowns(d) \subseteq UnknownSource
  BY DEF RequiredUnknowns, If, UnknownSource

LEMMA DeclaredIsWellFormed ==
  ASSUME NEW d, Declared(d)
  PROVE  WellFormed(d) /\ Coherent(d)
<1>1. RequiredUnknowns(d) \subseteq d.unknowns /\ "OUTCOME_CLASSES" \in d.unknowns
  BY RequiredIsKnown DEF Declared, UnknownSource
<1>. QED  BY <1>1 DEF Declared, WellFormed, Coherent

LEMMA BaselineDeclared == Declared(Baseline)
<1>1. {[domain |-> "UNKNOWN", confidence |-> "LOW"]}
        \in SUBSET [domain : RiskDomain, confidence : {"LOW", "MEDIUM", "HIGH"}]
  BY DEF RiskDomain
<1>2. {"UNKNOWN_OUTCOME_CLASS"} \in SUBSET OutcomeClass
  BY DEF OutcomeClass
<1>3. Baseline \in DecisionState
  BY <1>1, <1>2 DEF Baseline, DecisionState
<1>. QED  BY <1>3 DEF Declared, Baseline

LEMMA ProximityDeclared ==
  ASSUME NEW m \in Messages, NEW d, Declared(d)
  PROVE  Declared(ApplyProximity(d, m)) /\ ApplyProximity(d, m).proximity = ClassifyProximity(m)
<1>. DEFINE e == ApplyProximity(d, m)
<1>1. d \in DecisionState
  BY DEF Declared
<1>2. d.unknowns \cup If(ProximityUncertain(ClassifyProximity(m)), "PROXIMITY") = UnknownSource
  BY DEF If, UnknownSource, Declared
<1>3. ClassifyProximity(m) \in {ProximityOrder[k] : k \in DOMAIN ProximityOrder} \cup {"UNKNOWN"}
  BY ProximityIs DEF ProximityRead, ProximityOrder
<1>4. ProximityUncertain(ClassifyProximity(m)) \in BOOLEAN
  BY DEF ProximityUncertain
<1>5. e = [d EXCEPT !.proximity = ClassifyProximity(m),
                    !.uncertain = ProximityUncertain(ClassifyProximity(m)),
                    !.unknowns = UnknownSource]
  BY <1>2 DEF ApplyProximity
<1>6. e \in DecisionState
  BY <1>1, <1>3, <1>4, <1>5 DEF DecisionState, UnknownSource
<1>7. e.proximity = ClassifyProximity(m) /\ e.unknowns = UnknownSource /\ e.risks = d.risks
  BY <1>1, <1>5 DEF DecisionState
<1>. QED  BY <1>6, <1>7 DEF Declared

LEMMA RisksDeclared ==
  ASSUME NEW m \in Messages, NEW d, Declared(d)
  PROVE  /\ Declared(ApplyRisks(d, m))
         /\ ApplyRisks(d, m).risks = RisksOf(m)
         /\ ApplyRisks(d, m).proximity = d.proximity
<1>. DEFINE e == ApplyRisks(d, m)
<1>1. d \in DecisionState /\ RisksTyped(RisksOf(m))
  BY RisksAreTyped DEF Declared
<1>2. e = [d EXCEPT !.risks = RisksOf(m), !.unknowns = UnknownSource]
  <2>1. d.unknowns \cup {"RISK_DOMAINS", "CONFIDENCE"} = UnknownSource
    BY DEF UnknownSource, Declared
  <2>2. d.unknowns \cup If(d.proximity = "IMMINENT" /\ d.unknowns = {}, "RISK_DOMAINS") = UnknownSource
    BY DEF UnknownSource, Declared, If
  <2>3. CASE ClassifyDomains(m) = {}
    BY <2>1, <2>3 DEF ApplyRisks, RisksOf
  <2>4. CASE ClassifyDomains(m) # {}
    BY <2>2, <2>4 DEF ApplyRisks, RisksOf
  <2>. QED  BY <2>3, <2>4
<1>3. e \in DecisionState
  BY <1>1, <1>2 DEF DecisionState, UnknownSource, RisksTyped
<1>4. e.risks = RisksOf(m) /\ e.unknowns = UnknownSource /\ e.proximity = d.proximity
  BY <1>1, <1>2 DEF DecisionState
<1>. QED  BY <1>1, <1>3, <1>4 DEF Declared, RisksTyped

LEMMA ReversibilityDeclared ==
  ASSUME NEW m \in Messages, NEW d, Declared(d)
  PROVE  /\ Declared(ApplyIrreversibility(d, m))
         /\ ApplyIrreversibility(d, m).reversibility = ClassifyReversibility(m)
         /\ ApplyIrreversibility(d, m).risks = d.risks
         /\ ApplyIrreversibility(d, m).proximity = d.proximity
<1>. DEFINE e == ApplyIrreversibility(d, m)
<1>1. d \in DecisionState
  BY DEF Declared
<1>2. d.unknowns \cup If(ClassifyReversibility(m) # "COSTLY_REVERSIBLE", "REVERSIBILITY")
                 \cup If(ClassifyHorizon(m) # "MEDIUM_HORIZON", "HORIZON") = UnknownSource
  BY DEF UnknownSource, Declared, If
<1>3. e = [d EXCEPT !.reversibility = ClassifyReversibility(m), !.horizon = ClassifyHorizon(m),
                    !.unknowns = UnknownSource]
  BY <1>2 DEF ApplyIrreversibility
<1>4. e \in DecisionState
  <2>1. ClassifyReversibility(m)
          \in {"EASILY_REVERSIBLE", "COSTLY_REVERSIBLE", "IRREVERSIBLE", "UNKNOWN"}
    BY ReversibilityIs DEF ReversibilityRead
  <2>2. ClassifyHorizon(m) \in {"SHORT_HORIZON", "MEDIUM_HORIZON", "LONG_HORIZON", "UNKNOWN"}
    BY HorizonIs
  <2>. QED  BY <1>1, <1>3, <2>1, <2>2 DEF DecisionState
<1>5. e.reversibility = ClassifyReversibility(m) /\ e.unknowns = UnknownSource
      /\ e.risks = d.risks /\ e.proximity = d.proximity
  BY <1>1, <1>3 DEF DecisionState
<1>. QED  BY <1>4, <1>5 DEF Declared

\* What the last steps leave of a state.
Kept(d, e) == e.proximity = d.proximity /\ e.risks = d.risks /\ e.reversibility = d.reversibility

LEMMA ScopeDeclared ==
  ASSUME NEW m \in Messages, NEW d, Declared(d)
  PROVE  Declared(ApplyScope(d, m)) /\ Kept(d, ApplyScope(d, m))
<1>. DEFINE e == ApplyScope(d, m)
<1>1. d \in DecisionState
  BY DEF Declared
<1>2. d.unknowns \cup If(ClassifyScope(m) \in {"SELF_ONLY", "UNKNOWN"}, "RESPONSIBILITY_SCOPE")
                 \cup If(ClassifyScope(m) = "SYSTEMIC_PUBLIC" /\ d.horizon = "SHORT_HORIZON",
                         "HORIZON") = UnknownSource
  BY DEF UnknownSource, Declared, If
<1>3. e = [d EXCEPT !.scope = ClassifyScope(m), !.unknowns = UnknownSource]
  BY <1>2 DEF ApplyScope
<1>4. e \in DecisionState
  BY <1>1, <1>3, ScopeIs DEF DecisionState, UnknownSource
<1>5. e.unknowns = UnknownSource /\ Kept(d, e)
  BY <1>1, <1>3 DEF DecisionState, Kept
<1>. QED  BY <1>4, <1>5 DEF Declared, Kept

LEMMA OutcomesAreClasses ==
  ASSUME NEW m \in Messages, NEW d \in DecisionState
  PROVE  m.outcomes \cup OutcomesOfState(d) \subseteq OutcomeClass
<1>1. m.outcomes \subseteq OutcomeClass
  BY PipelineInputs DEF MarkersFound
<1>2. ASSUME NEW r \in d.risks PROVE OutcomeOf[r.domain] \in OutcomeClass
  <2>1. r.domain \in RiskDomain
    BY DEF DecisionState
  <2>. QED  BY <2>1 DEF RiskDomain, OutcomeOf, OutcomeClass
<1>3. If(d.horizon = "LONG_HORIZON" \/ d.reversibility = "IRREVERSIBLE",
         "IRREVERSIBLE_PERSONAL_HARM_OUTCOME") \subseteq OutcomeClass
  BY DEF If, OutcomeClass
<1>4. {"REPUTATIONAL_SOCIAL_OUTCOME", "OPERATIONAL_SYSTEM_OUTCOME"} \subseteq OutcomeClass
      /\ {"ETHICAL_MORAL_OUTCOME"} \subseteq OutcomeClass
  BY DEF OutcomeClass
<1>. QED  BY <1>1, <1>2, <1>3, <1>4 DEF OutcomesOfState

LEMMA OutcomesDeclared ==
  ASSUME NEW m \in Messages, NEW d, Declared(d)
  PROVE  Declared(ApplyOutcomes(d, m)) /\ Kept(d, ApplyOutcomes(d, m))
<1>. DEFINE e == ApplyOutcomes(d, m)
            found == m.outcomes \cup OutcomesOfState(d)
            outcomes == IF found = {} THEN {"UNKNOWN_OUTCOME_CLASS"} ELSE found
<1>1. d \in DecisionState
  BY DEF Declared
<1>2. outcomes \in SUBSET OutcomeClass
  <2>1. found \subseteq OutcomeClass
    BY <1>1, OutcomesAreClasses
  <2>2. {"UNKNOWN_OUTCOME_CLASS"} \subseteq OutcomeClass
    BY DEF OutcomeClass
  <2>. HIDE DEF found
  <2>. QED  BY <2>1, <2>2
<1>3. e = [d EXCEPT !.outcomes = outcomes, !.unknowns = UnknownSource]
  <2>1. d.unknowns \cup If("UNKNOWN_OUTCOME_CLASS" \in outcomes, "OUTCOME_CLASSES") = UnknownSource
    BY DEF UnknownSource, Declared, If
  <2>2. e = [d EXCEPT !.outcomes = outcomes,
                      !.unknowns = @ \cup If("UNKNOWN_OUTCOME_CLASS" \in outcomes, "OUTCOME_CLASSES")]
    BY DEF ApplyOutcomes
  <2>. HIDE DEF outcomes
  <2>. QED  BY <2>1, <2>2
<1>. HIDE DEF outcomes
<1>4. e \in DecisionState
  BY <1>1, <1>2, <1>3 DEF DecisionState, UnknownSource
<1>5. e.unknowns = UnknownSource /\ Kept(d, e)
  BY <1>1, <1>3 DEF DecisionState, Kept
<1>. QED  BY <1>4, <1>5 DEF Declared, Kept

LEMMA ConsolidatedDeclared ==
  ASSUME NEW d, Declared(d)
  PROVE  Declared(ConsolidateUnknowns(d)) /\ Kept(d, ConsolidateUnknowns(d))
<1>. DEFINE e == ConsolidateUnknowns(d)
<1>1. d \in DecisionState
  BY DEF Declared
<1>2. d.unknowns \cup RequiredUnknowns(d) = UnknownSource
  BY RequiredIsKnown DEF Declared
<1>3. e = [d EXCEPT !.unknowns = UnknownSource]
  BY <1>2 DEF ConsolidateUnknowns
<1>4. e \in DecisionState /\ e.unknowns = UnknownSource /\ Kept(d, e)
  BY <1>1, <1>3 DEF DecisionState, Kept
<1>. QED  BY <1>4 DEF Declared, Kept

\* The decision state of a message: declared, with the values of three classifiers.
DecisionMade(d, m) ==
  /\ Declared(d)
  /\ d.proximity = ClassifyProximity(m)
  /\ d.risks = RisksOf(m)
  /\ d.reversibility = ClassifyReversibility(m)

LEMMA DecisionHolds ==
  ASSUME NEW m \in Messages
  PROVE  ~DecisionFails(m) /\ DecisionMade(AssembleDecisionState(m), m)
<1>. DEFINE s1 == ApplyProximity(Baseline, m)
            s2 == ApplyRisks(s1, m)
            s3 == ApplyIrreversibility(s2, m)
            s4 == ApplyScope(s3, m)
            s5 == ApplyOutcomes(s4, m)
            s6 == ConsolidateUnknowns(s5)
<1>0. AssemblySteps(m) = <<s1, s2, s3, s4, s5, s6>>
  BY DEF AssemblySteps
<1>. HIDE DEF s1, s2, s3, s4, s5, s6
<1>1. Declared(s1) /\ s1.proximity = ClassifyProximity(m)
  BY BaselineDeclared, ProximityDeclared DEF s1
<1>2. Declared(s2) /\ s2.proximity = s1.proximity /\ s2.risks = RisksOf(m)
  BY <1>1, RisksDeclared DEF s2
<1>3. Declared(s3) /\ s3.proximity = s2.proximity /\ s3.risks = s2.risks
      /\ s3.reversibility = ClassifyReversibility(m)
  BY <1>2, ReversibilityDeclared DEF s3
<1>4. Declared(s4) /\ Kept(s3, s4)
  BY <1>3, ScopeDeclared DEF s4
<1>5. Declared(s5) /\ Kept(s4, s5)
  BY <1>4, OutcomesDeclared DEF s5
<1>6. Declared(s6) /\ Kept(s5, s6)
  BY <1>5, ConsolidatedDeclared DEF s6
<1>7. AssembleDecisionState(m) = s6
  BY <1>0 DEF AssembleDecisionState
<1>8. ASSUME NEW k \in 1..6 PROVE WellFormed(AssemblySteps(m)[k])
  <2>1. AssemblySteps(m)[k] \in {s1, s2, s3, s4, s5, s6}
    BY <1>0
  <2>2. Declared(AssemblySteps(m)[k])
    BY <2>1, <1>1, <1>2, <1>3, <1>4, <1>5, <1>6
  <2>. QED  BY <2>2, DeclaredIsWellFormed
<1>9. ProximityAllowed(Baseline, ClassifyProximity(m))
  <2>1. Baseline.proximity = "UNKNOWN" /\ "PROXIMITY" \in Baseline.unknowns
    BY DEF Baseline, UnknownSource
  <2>. QED  BY <2>1 DEF ProximityAllowed
<1>10. Coherent(AssembleDecisionState(m))
  BY <1>6, <1>7, DeclaredIsWellFormed
<1>11. DecisionMade(s6, m)
  BY <1>1, <1>2, <1>3, <1>4, <1>5, <1>6 DEF DecisionMade, Kept
<1>. QED  BY <1>7, <1>8, <1>9, <1>10, <1>11 DEF DecisionFails

-----------------------------------------------------------------------------
(* The model pipeline: the control plan.                                     *)

\* A decision state as the assembly leaves it.
Placed(d) == Declared(d) /\ d.proximity \in {"VERY_LOW", "LOW", "MEDIUM", "HIGH", "IMMINENT"}

\* What is worth a question: everything but what is far away, harmless and reversible.
Weighty(d) == ~Remote(d) \/ CriticalMedium(d) \/ Irreversible(d)

LEMMA UnknownsDeclared == ASSUME NEW d, Declared(d) PROVE Unknowns(d)
  BY DEF Declared, Unknowns, UnknownSource

LEMMA MadeIsPlaced ==
  ASSUME NEW m \in Messages, NEW d, DecisionMade(d, m)
  PROVE  Placed(d)
  BY ProximityIs DEF DecisionMade, Placed, ProximityRead

\* Acting is imminent or close: the stricter levels are for nothing else.
RigorRead(rigor, d) ==
  /\ rigor \in {"MINIMAL", "GUARDED", "STRUCTURED", "ENFORCED"}
  /\ rigor = "ENFORCED" => Near(d)
  /\ d.proximity = "IMMINENT" => rigor = "ENFORCED"

LEMMA RigorIs ==
  ASSUME NEW d, Placed(d)
  PROVE  RigorRead(SelectRigor(d), d)
<1>1. Unknowns(d)
  BY UnknownsDeclared DEF Placed
<1>2. d.proximity = "IMMINENT" => RigorEnforced(d)
  BY <1>1 DEF RigorEnforced
<1>3. RigorEnforced(d) => Near(d)
  BY DEF RigorEnforced, Near
<1>. QED  BY <1>2, <1>3 DEF RigorRead, SelectRigor

FrictionRead(friction, d) ==
  /\ friction \in {"NONE", "SOFT_PAUSE", "HARD_PAUSE", "STOP"}
  /\ friction = "STOP" => d.proximity = "IMMINENT"
  /\ d.proximity = "MEDIUM" => friction # "NONE"

LEMMA FrictionIs ==
  ASSUME NEW d, Placed(d), NEW rigor
  PROVE  FrictionRead(SelectFriction(d, rigor), d)
<1>1. Unknowns(d)
  BY UnknownsDeclared DEF Placed
<1>2. d.proximity = "MEDIUM" => FrictionSoft(d, rigor)
  BY <1>1 DEF FrictionSoft
<1>3. FrictionStop(d) => d.proximity = "IMMINENT"
  BY DEF FrictionStop
<1>. QED  BY <1>2, <1>3 DEF FrictionRead, SelectFriction

ReasonRead(reason, d) ==
  /\ reason \in {"UNKNOWN", "SAFETY", "SCOPE_CONFIRMATION", "MISSING_CONTEXT"}
  /\ Weighty(d) => reason # "UNKNOWN"
  /\ ~Weighty(d) => reason = "UNKNOWN"

LEMMA ReasonIs ==
  ASSUME NEW d, Placed(d), NEW rigor, NEW friction, FrictionRead(friction, d)
  PROVE  ReasonRead(ClarificationReason(d, rigor, friction), d)
<1>1. Unknowns(d)
  BY UnknownsDeclared DEF Placed
<1>. DEFINE reason == ClarificationReason(d, rigor, friction)
<1>2. CASE Remote(d)
  <2>1. reason = IF CriticalMedium(d) \/ Irreversible(d) THEN "SAFETY" ELSE "UNKNOWN"
    BY <1>1, <1>2 DEF ClarificationReason, Remote, Near
  <2>. QED  BY <1>2, <2>1 DEF ReasonRead, Weighty
<1>3. CASE d.proximity = "MEDIUM"
  <2>1. ~Remote(d) /\ ~Near(d) /\ friction # "NONE"
    BY <1>3 DEF Remote, Near, FrictionRead
  <2>2. reason = IF CriticalMedium(d) \/ Irreversible(d) THEN "SAFETY"
                 ELSE IF OthersInvolved(d) THEN "SCOPE_CONFIRMATION" ELSE "MISSING_CONTEXT"
    BY <1>1, <1>3, <2>1 DEF ClarificationReason
  <2>. QED  BY <2>1, <2>2 DEF ReasonRead, Weighty
<1>4. CASE Near(d)
  <2>1. ~Remote(d) /\ d.proximity # "MEDIUM"
    BY <1>4 DEF Remote, Near
  <2>2. reason = "MISSING_CONTEXT"
    BY <1>1, <1>4, <2>1 DEF ClarificationReason
  <2>. QED  BY <2>1, <2>2 DEF ReasonRead, Weighty
<1>5. Remote(d) \/ d.proximity = "MEDIUM" \/ Near(d)
  BY DEF Placed, Remote, Near
<1>. QED  BY <1>2, <1>3, <1>4, <1>5

LEMMA QuestionIs ==
  ASSUME NEW d, NEW reason, NEW rigor, NEW friction
  PROVE  SelectQuestion(d, reason, rigor, friction)[1]
           \in {"SAFETY_GUARD", "CONSENT", "OTHER_BOUNDARY", "INFORMATIONAL"}
  BY DEF SelectQuestion

LEMMA InitiativeIs ==
  ASSUME NEW d, Placed(d), NEW friction, NEW asks \in BOOLEAN
  PROVE  SelectInitiative(d, friction, asks) \in {"NONE", "ONCE", "STRICT_ONCE"}
<1>1. CASE asks
  BY <1>1 DEF SelectInitiative
<1>2. CASE ~asks /\ Remote(d)
  BY <1>2 DEF SelectInitiative, Remote, Near
<1>3. CASE ~asks /\ d.proximity = "MEDIUM"
  BY <1>3 DEF SelectInitiative, Remote, Near
<1>4. CASE ~asks /\ Near(d)
  BY <1>4 DEF SelectInitiative, Remote, Near
<1>5. Remote(d) \/ d.proximity = "MEDIUM" \/ Near(d)
  BY DEF Placed, Remote, Near
<1>. QED  BY <1>1, <1>2, <1>3, <1>4, <1>5

ClosureRead(closure, m, asks) ==
  /\ closure \in {"OPEN", "CLOSING", "CLOSED", "USER_TERMINATED"}
  /\ closure = "OPEN" => m.ending \in {"none", "weak"}
  /\ closure = "CLOSING" => ~asks

LEMMA ClosureIs ==
  ASSUME NEW m \in Messages, NEW d, NEW friction, NEW asks \in BOOLEAN
  PROVE  ClosureRead(DetectClosure(m, d, friction, asks), m, asks)
<1>. DEFINE closure == DetectClosure(m, d, friction, asks)
<1>1. CASE m.ending = "strong"
  <2>1. closure = "USER_TERMINATED"
    BY <1>1 DEF DetectClosure
  <2>. QED  BY <2>1 DEF ClosureRead
<1>2. CASE m.ending = "refusal"
  <2>1. closure \in {"USER_TERMINATED", "CLOSED"}
    BY <1>2 DEF DetectClosure
  <2>. QED  BY <2>1 DEF ClosureRead
<1>3. CASE m.ending = "weak"
  <2>1. closure = "OPEN" \/ (closure = "CLOSING" /\ ~asks)
    BY <1>3 DEF DetectClosure
  <2>. QED  BY <1>3, <2>1 DEF ClosureRead
<1>4. CASE m.ending = "none"
  <2>1. closure = "OPEN"
    BY <1>4 DEF DetectClosure
  <2>. QED  BY <1>4, <2>1 DEF ClosureRead
<1>. QED  BY <1>1, <1>2, <1>3, <1>4, PipelineInputs

\* Whoever is asked is not refused, and whatever is near is asked about.
RefusalRead(refusal, friction) ==
  /\ refusal \in RefusalCategory
  /\ refusal # "NONE" => friction = "STOP"

LEMMA RefusalIs ==
  ASSUME NEW d, NEW friction, NEW closure, NEW asks \in BOOLEAN, Weighty(d) => asks
  PROVE  RefusalRead(DecideRefusal(d, friction, asks, closure), friction)
<1>1. (Near(d) \/ Elevated(d) \/ d.proximity = "IMMINENT") => asks
  BY DEF Near, Elevated, Weighty, Remote
<1>. QED  BY <1>1 DEF DecideRefusal, RefusalRead, RefusalCategory

\* A conversation that is over.
HasEnded(p) == p.closure \in {"CLOSED", "USER_TERMINATED"}

\* A control plan as the assembly leaves it.
PlanMade(p, d, m) ==
  /\ p \in ControlPlan
  /\ RigorRead(p.rigor, d)
  /\ FrictionRead(p.friction, d)
  /\ ClosureRead(p.closure, m, Weighty(d))
  /\ RefusalRead(p.refusal, p.friction)
  /\ p.clarification <=> Weighty(d) /\ ~HasEnded(p)
  /\ p.questionBudget = IF p.clarification THEN 1 ELSE 0
  /\ p.question # "NONE" <=> p.clarification
  /\ p.clarification => p.warningBudget = 0
  /\ p.action = ChooseAction(p)

LEMMA PlanTypeIs ==
  ControlPlan =
    [action : ControlAction,
     rigor : {"MINIMAL", "GUARDED", "STRUCTURED", "ENFORCED"},
     friction : {"NONE", "SOFT_PAUSE", "HARD_PAUSE", "STOP"},
     clarification : BOOLEAN,
     reason : {"UNKNOWN", "SAFETY", "SCOPE_CONFIRMATION", "MISSING_CONTEXT"},
     questionBudget : {0, 1},
     question : {"NONE", "SAFETY_GUARD", "CONSENT", "OTHER_BOUNDARY", "INFORMATIONAL"},
     initiative : {"NONE", "ONCE", "STRICT_ONCE"},
     warningBudget : {0, 1},
     closure : {"OPEN", "CLOSING", "CLOSED", "USER_TERMINATED"},
     refusal : RefusalCategory]
<1>1. {RigorOrder[k] : k \in DOMAIN RigorOrder} = {"MINIMAL", "GUARDED", "STRUCTURED", "ENFORCED"}
  <2>1. DOMAIN RigorOrder = 1..4 /\ RigorOrder[1] = "MINIMAL" /\ RigorOrder[2] = "GUARDED"
        /\ RigorOrder[3] = "STRUCTURED" /\ RigorOrder[4] = "ENFORCED"
    BY DEF RigorOrder
  <2>. QED  BY <2>1
<1>2. {FrictionOrder[k] : k \in DOMAIN FrictionOrder} = {"NONE", "SOFT_PAUSE", "HARD_PAUSE", "STOP"}
  <2>1. DOMAIN FrictionOrder = 1..4 /\ FrictionOrder[1] = "NONE" /\ FrictionOrder[2] = "SOFT_PAUSE"
        /\ FrictionOrder[3] = "HARD_PAUSE" /\ FrictionOrder[4] = "STOP"
    BY DEF FrictionOrder
  <2>. QED  BY <2>1
<1>3. 0..1 = {0, 1}
  OBVIOUS
<1>. QED  BY <1>1, <1>2, <1>3 DEF ControlPlan

LEMMA PlanHolds ==
  ASSUME NEW m \in Messages, NEW d, Placed(d)
  PROVE  PlanMade(AssembleControlPlan(m, d), d, m)
<1>. DEFINE rigor == SelectRigor(d)
            friction == SelectFriction(d, rigor)
            reason == ClarificationReason(d, rigor, friction)
            asks == reason # "UNKNOWN"
            closure == DetectClosure(m, d, friction, asks)
            question == IF asks THEN SelectQuestion(d, reason, rigor, friction)[1] ELSE "NONE"
            initiative == SelectInitiative(d, friction, asks)
            warnings == SelectWarnings(d, friction, asks)
            refusal == DecideRefusal(d, friction, asks, closure)
            raw == [action |-> "ANSWER_ALLOWED", rigor |-> rigor, friction |-> friction,
                    clarification |-> asks, reason |-> reason,
                    questionBudget |-> IF asks THEN 1 ELSE 0,
                    question |-> question, initiative |-> initiative,
                    warningBudget |-> warnings, closure |-> closure, refusal |-> refusal]
            made == ApplyOverrides(raw)
            p == [made EXCEPT !.action = ChooseAction(made)]
<1>0. AssembleControlPlan(m, d) = p
  BY DEF AssembleControlPlan
<1>1. RigorRead(rigor, d) /\ FrictionRead(friction, d)
  BY RigorIs, FrictionIs
<1>2. ReasonRead(reason, d)
  <2>. HIDE DEF friction, rigor
  <2>. QED  BY <1>1, ReasonIs
<1>3. asks \in BOOLEAN /\ (asks <=> Weighty(d))
  <2>. HIDE DEF reason
  <2>. QED  BY <1>2 DEF ReasonRead
<1>4. ClosureRead(closure, m, asks)
  <2>. HIDE DEF friction, asks
  <2>. QED  BY <1>3, ClosureIs
<1>5. RefusalRead(refusal, friction)
  <2>. HIDE DEF friction, asks, closure
  <2>. QED  BY <1>3, RefusalIs
<1>6. initiative \in {"NONE", "ONCE", "STRICT_ONCE"}
  <2>. HIDE DEF friction, asks
  <2>. QED  BY <1>3, InitiativeIs
<1>7. /\ question \in {"NONE", "SAFETY_GUARD", "CONSENT", "OTHER_BOUNDARY", "INFORMATIONAL"}
      /\ question # "NONE" <=> asks
  <2>1. SelectQuestion(d, reason, rigor, friction)[1]
          \in {"SAFETY_GUARD", "CONSENT", "OTHER_BOUNDARY", "INFORMATIONAL"}
    BY QuestionIs
  <2>. HIDE DEF asks, reason, friction, rigor
  <2>. QED  BY <2>1
<1>8. warnings \in 0..1 /\ (asks => warnings = 0)
  <2>. HIDE DEF asks, friction
  <2>. QED  BY DEF SelectWarnings
<1>. HIDE DEF rigor, friction, reason, asks, closure, question, initiative, warnings, refusal
<1>9. raw \in ControlPlan
  BY <1>1, <1>2, <1>3, <1>4, <1>5, <1>6, <1>7, <1>8, PlanTypeIs
     DEF RigorRead, FrictionRead, ReasonRead, ClosureRead, RefusalRead, ControlAction
<1>10. /\ made \in ControlPlan
       /\ made.rigor = rigor /\ made.friction = friction
       /\ made.closure = closure /\ made.refusal = refusal
       /\ made.clarification = (asks /\ ~HasEnded(made))
       /\ made.questionBudget = IF asks /\ ~HasEnded(made) THEN 1 ELSE 0
       /\ made.question # "NONE" <=> asks /\ ~HasEnded(made)
       /\ asks => made.warningBudget = 0
  <2>1. CASE closure \in {"CLOSED", "USER_TERMINATED"}
    <3>1. made = [raw EXCEPT !.clarification = FALSE, !.reason = "UNKNOWN", !.questionBudget = 0,
                   !.question = "NONE", !.initiative = "NONE", !.warningBudget = 0]
      BY <2>1 DEF ApplyOverrides
    <3>. HIDE DEF raw, made
    <3>2. made \in ControlPlan
      <4>. DEFINE one == [raw EXCEPT !.clarification = FALSE, !.reason = "UNKNOWN"]
                  two == [one EXCEPT !.questionBudget = 0, !.question = "NONE"]
                  three == [two EXCEPT !.initiative = "NONE", !.warningBudget = 0]
      <4>1. made = three
        BY <3>1
      <4>2. one \in ControlPlan
        BY <1>9, PlanTypeIs
      <4>. HIDE DEF one
      <4>3. two \in ControlPlan
        BY <4>2, PlanTypeIs
      <4>. HIDE DEF two
      <4>4. three \in ControlPlan
        BY <4>3, PlanTypeIs
      <4>. QED  BY <4>1, <4>4
    <3>3. made.rigor = rigor /\ made.friction = friction /\ made.closure = closure
          /\ made.refusal = refusal
      <4>1. made.rigor = raw.rigor /\ made.friction = raw.friction
            /\ made.closure = raw.closure /\ made.refusal = raw.refusal
        BY <1>9, <3>1, PlanTypeIs
      <4>. QED  BY <4>1 DEF raw
    <3>4. made.clarification = FALSE /\ made.questionBudget = 0 /\ made.question = "NONE"
          /\ made.warningBudget = 0
      BY <1>9, <3>1, PlanTypeIs
    <3>5. HasEnded(made)
      BY <2>1, <3>3 DEF HasEnded
    <3>. QED  BY <3>2, <3>3, <3>4, <3>5
  <2>2. CASE closure \notin {"CLOSED", "USER_TERMINATED"}
    <3>1. made = raw
      BY <2>2 DEF ApplyOverrides
    <3>2. ~HasEnded(made)
      BY <2>2, <3>1 DEF HasEnded
    <3>. QED  BY <1>3, <1>7, <1>8, <1>9, <3>1, <3>2
  <2>. QED  BY <2>1, <2>2
<1>. HIDE DEF made
<1>11. ChooseAction(made) \in ControlAction
  BY DEF ChooseAction, ControlAction
<1>12. p \in ControlPlan
  BY <1>10, <1>11 DEF ControlPlan
<1>13. /\ p.rigor = made.rigor /\ p.friction = made.friction /\ p.closure = made.closure
       /\ p.refusal = made.refusal /\ p.clarification = made.clarification
       /\ p.questionBudget = made.questionBudget /\ p.question = made.question
       /\ p.warningBudget = made.warningBudget /\ p.action = ChooseAction(made)
  BY <1>10 DEF ControlPlan
<1>. HIDE DEF p
<1>14. HasEnded(p) <=> HasEnded(made)
  BY <1>13 DEF HasEnded
<1>15. ChooseAction(p) = ChooseAction(made)
  BY <1>13 DEF ChooseAction
<1>16. p.clarification <=> Weighty(d) /\ ~HasEnded(p)
  BY <1>3, <1>10, <1>13, <1>14
<1>17. p.questionBudget = IF p.clarification THEN 1 ELSE 0
  BY <1>10, <1>13
<1>18. /\ p.question # "NONE" <=> p.clarification
       /\ p.clarification => p.warningBudget = 0
  BY <1>3, <1>10, <1>13
<1>19. ClosureRead(p.closure, m, Weighty(d))
  BY <1>3, <1>4, <1>10, <1>13 DEF ClosureRead
<1>20. RigorRead(p.rigor, d) /\ FrictionRead(p.friction, d) /\ RefusalRead(p.refusal, p.friction)
  BY <1>1, <1>5, <1>10, <1>13
<1>21. PlanMade(p, d, m)
  BY <1>12, <1>13, <1>15, <1>16, <1>17, <1>18, <1>19, <1>20 DEF PlanMade
<1>. QED  BY <1>0, <1>21

\* No message breaks the second assembly.
LEMMA PlanIsValid ==
  ASSUME NEW m \in Messages, NEW d, Placed(d)
  PROVE  ~ControlPlanFails(m, d)
<1>. DEFINE p == AssembleControlPlan(m, d)
<1>1. PlanMade(p, d, m)
  BY PlanHolds
<1>2. ~ClarificationFails(d)
  BY DEF ClarificationFails, Placed
<1>. HIDE DEF p
<1>3. p.clarification \in BOOLEAN
  BY <1>1 DEF PlanMade, ControlPlan
<1>4. p.questionBudget = 1 <=> p.question # "NONE"
  BY <1>1, <1>3 DEF PlanMade
<1>5. p.friction = "STOP" => p.refusal # "NONE" \/ p.closure # "OPEN" \/ p.clarification
  <2>1. p.friction = "STOP" => Weighty(d)
    BY <1>1 DEF PlanMade, FrictionRead, Weighty, Remote
  <2>. QED  BY <1>1, <2>1 DEF PlanMade, HasEnded
<1>6. p.clarification => p.warningBudget = 0
  BY <1>1 DEF PlanMade
<1>7. p.action = "ASK_ONE_QUESTION" => p.questionBudget = 1 /\ p.closure # "CLOSED"
  BY <1>1 DEF PlanMade, ChooseAction
<1>8. p.questionBudget = 1 => p.action = "ASK_ONE_QUESTION" \/ p.clarification
  BY <1>1 DEF PlanMade
<1>9. /\ p.action = "ANSWER_ALLOWED" => p.refusal = "NONE"
      /\ p.action = "REFUSE" => p.refusal # "NONE"
      /\ p.action = "CLOSE" => ~p.clarification
  BY <1>1 DEF PlanMade, ChooseAction, HasEnded
<1>10. ControlPlanValid(p)
  BY <1>4, <1>5, <1>6, <1>7, <1>8, <1>9 DEF ControlPlanValid
<1>. QED  BY <1>2, <1>10 DEF ControlPlanFails, p

-----------------------------------------------------------------------------
(* The model pipeline: the output plan.                                      *)

LEMMA EnforcedFails ==
  ASSUME NEW m \in Messages, NEW d, Placed(d), NEW p, PlanMade(p, d, m), p.rigor = "ENFORCED"
  PROVE  OutputPlanFails(d, p)
<1>1. Weighty(d)
  BY DEF PlanMade, RigorRead, Near, Weighty, Remote
<1>2. Asks(p) \/ Ended(p)
  BY <1>1 DEF PlanMade, Asks, Ended, HasEnded
<1>. QED  BY <1>2 DEF OutputPlanFails, RigorRefused

LEMMA NotBenign == ASSUME NEW d, Declared(d), NEW p PROVE ~Benign(d, p)
  BY UnknownsDeclared DEF Benign

\* The output plan the selectors make of a control plan they can express.
OutputMade(o, d, p) ==
  /\ o \in OutputPlan
  /\ o.action = ResolveAction(p)
  /\ o.action # "REFUSE"
  /\ o.disclosure # "NONE"

LEMMA OutputTypeIs ==
  OutputPlan =
    [action : OutputAction,
     posture : {"BASELINE", "GUARDED", "CONSTRAINED"},
     rigor : {"MINIMAL", "GUARDED", "STRUCTURED", "ENFORCED"},
     signaling : {"MINIMAL", "GUARDED", "EXPLICIT"},
     disclosure : {"NONE", "IMPLICIT", "EXPLICIT"},
     surfacing : {"NONE", "LIGHT", "REQUIRED"},
     question : {"NONE", "SAFETY_GUARD", "CONSENT", "OTHER_BOUNDARY", "INFORMATIONAL"},
     refusal : RefusalCategory,
     explanation : {"BRIEF_BOUNDARY", "BOUNDED_EXPLANATION", "REDIRECT_TO_SAFE_FRAME"},
     rendering : {"SILENCE", "CONFIRM_CLOSURE", "BRIEF_SUMMARY_AND_STOP"},
     closure : {"OPEN", "CLOSING", "CLOSED", "USER_TERMINATED"}]
<1>1. DOMAIN RigorOrder = 1..4 /\ RigorOrder[1] = "MINIMAL" /\ RigorOrder[2] = "GUARDED"
      /\ RigorOrder[3] = "STRUCTURED" /\ RigorOrder[4] = "ENFORCED"
  BY DEF RigorOrder
<1>2. {RigorOrder[k] : k \in DOMAIN RigorOrder} = {"MINIMAL", "GUARDED", "STRUCTURED", "ENFORCED"}
  BY <1>1
<1>. QED  BY <1>2 DEF OutputPlan

LEMMA OutputHolds ==
  ASSUME NEW m \in Messages, NEW d, Placed(d), NEW p, PlanMade(p, d, m), p.rigor # "ENFORCED"
  PROVE  ~OutputPlanFails(d, p) /\ OutputMade(AssembleOutputPlan(d, p), d, p)
<1>. DEFINE posture == SelectPosture(d, p)
            rigor == SelectRigorDisclosure(d, p, posture)
            signaling == SelectSignaling(d, p, posture, rigor)
            disclosure == SelectUnknownDisclosure(d, p, posture, rigor, signaling)
            surfacing == SelectAssumptionSurfacing(d, p, posture, rigor, signaling, disclosure)
            action == ResolveAction(p)
            question == IF action = "ASK_ONE_QUESTION" THEN p.question ELSE "NONE"
            refusal == IF action = "REFUSE" THEN p.refusal ELSE "NONE"
            explanation == SelectExplanation(d, p, disclosure)
            rendering == SelectClosureRendering(d, p, posture)
            o == AssembleOutputPlan(d, p)
<1>0. o = [action |-> action, posture |-> posture, rigor |-> rigor, signaling |-> signaling,
           disclosure |-> disclosure, surfacing |-> surfacing, question |-> question,
           refusal |-> refusal, explanation |-> explanation, rendering |-> rendering,
           closure |-> p.closure]
  BY DEF AssembleOutputPlan
<1>1. ~Benign(d, p)
  BY NotBenign DEF Placed
<1>2. p.friction # "STOP"
  BY DEF PlanMade, FrictionRead, RigorRead
<1>3. ~Refuses(p) /\ p.refusal = "NONE"
  BY <1>2 DEF PlanMade, RefusalRead, Refuses
<1>4. posture \in {"CONSTRAINED", "GUARDED"}
  BY <1>1 DEF SelectPosture
<1>5. rigor \in {"STRUCTURED", "GUARDED", "MINIMAL"}
  BY DEF SelectRigorDisclosure
<1>6. signaling \in {"EXPLICIT", "GUARDED"}
  BY <1>1 DEF SelectSignaling
<1>7. disclosure \in {"EXPLICIT", "IMPLICIT"}
  BY <1>1 DEF SelectUnknownDisclosure
<1>8. surfacing \in {"REQUIRED", "LIGHT"}
  BY <1>1 DEF SelectAssumptionSurfacing
<1>9. action \in OutputAction
  BY DEF ResolveAction, OutputAction
<1>10. question \in {"NONE", "SAFETY_GUARD", "CONSENT", "OTHER_BOUNDARY", "INFORMATIONAL"}
  BY PlanTypeIs DEF PlanMade
<1>11. refusal \in RefusalCategory
  BY <1>3 DEF RefusalCategory
<1>12. explanation = "BRIEF_BOUNDARY"
  BY <1>3 DEF SelectExplanation
<1>13. rendering \in {"SILENCE", "CONFIRM_CLOSURE", "BRIEF_SUMMARY_AND_STOP"}
  BY DEF SelectClosureRendering
<1>14. p.closure \in {"OPEN", "CLOSING", "CLOSED", "USER_TERMINATED"}
  BY DEF PlanMade, ClosureRead
<1>15. action = ResolveAction(p) /\ action # "REFUSE"
  BY <1>3 DEF ResolveAction
<1>. HIDE DEF posture, rigor, signaling, disclosure, surfacing, action, question, refusal,
              explanation, rendering
<1>16. OutputMade(o, d, p)
  BY <1>0, <1>4, <1>5, <1>6, <1>7, <1>8, <1>9, <1>10, <1>11, <1>12, <1>13, <1>14, <1>15,
     OutputTypeIs DEF OutputMade
<1>17. /\ o.posture # "BASELINE" /\ o.rigor # "ENFORCED" /\ o.signaling # "MINIMAL"
       /\ o.disclosure # "NONE" /\ o.surfacing # "NONE" /\ o.action = ResolveAction(p)
  BY <1>0, <1>4, <1>5, <1>6, <1>7, <1>8, <1>15
<1>. HIDE DEF o
<1>18. ~RigorRefused(d, p, o) /\ ~SelectorsRefuse(d, p, o) /\ ~RefusalRefused(p, o)
  BY <1>2, <1>3, <1>17 DEF RigorRefused, SelectorsRefuse, RefusalRefused
<1>19. p.clarification \in BOOLEAN
  BY DEF PlanMade, ControlPlan
<1>20. Ended(p) => ~p.clarification /\ p.questionBudget = 0
  <2>1. Ended(p) => HasEnded(p) \/ p.closure = "CLOSING"
    BY <1>14 DEF Ended, HasEnded
  <2>2. p.closure = "CLOSING" => ~Weighty(d)
    BY DEF PlanMade, ClosureRead
  <2>. QED  BY <1>19, <2>1, <2>2 DEF PlanMade
<1>21. ~ClosureRefused(p, o)
  BY <1>2, <1>20 DEF ClosureRefused
<1>22. ~ActionRefused(p, o)
  <2>1. CASE o.action = "CLOSE"
    <3>1. Ended(p)
      BY <1>3, <1>17, <2>1 DEF ResolveAction
    <3>. QED  BY <1>3, <1>17, <1>20, <2>1, <3>1 DEF ActionRefused
  <2>2. CASE o.action = "REFUSE"
    BY <1>3, <1>17, <2>2 DEF ResolveAction
  <2>3. CASE o.action = "ASK_ONE_QUESTION"
    <3>1. p.action = "ASK_ONE_QUESTION" /\ ~Ended(p)
      BY <1>3, <1>17, <2>3 DEF ResolveAction
    <3>2. p.clarification
      BY <3>1 DEF PlanMade, ChooseAction
    <3>3. p.questionBudget = 1 /\ p.question # "NONE"
      BY <3>2 DEF PlanMade
    <3>. QED  BY <1>17, <2>3, <3>3 DEF ActionRefused
  <2>4. CASE o.action = "ANSWER"
    <3>1. ~Ended(p) /\ p.action # "ASK_ONE_QUESTION"
      BY <1>17, <2>4 DEF ResolveAction
    <3>2. p.action = "ANSWER_ALLOWED" /\ ~p.clarification
      BY <1>3, <3>1 DEF PlanMade, ChooseAction, Ended
    <3>3. p.questionBudget = 0
      BY <3>2 DEF PlanMade
    <3>. QED  BY <1>2, <1>17, <2>4, <3>2, <3>3 DEF ActionRefused
  <2>5. o.action \in OutputAction
    BY <1>9, <1>15, <1>17
  <2>. QED  BY <2>1, <2>2, <2>3, <2>4, <2>5 DEF OutputAction
<1>23. ~OutputPlanFails(d, p)
  BY <1>18, <1>21, <1>22 DEF OutputPlanFails, o
<1>. QED  BY <1>16, <1>23 DEF o

\* The message behind a plan that answers.
LowStakes(m) ==
  /\ m.proximity \cap {"MEDIUM", "HIGH", "IMMINENT"} = {}
  /\ MarkedRisks(m) \cap CriticalDomains = {}
  /\ "IRREVERSIBLE" \notin m.reversibility
  /\ m.ending \in {"none", "weak"}

LEMMA AnswerIsLowStakes ==
  ASSUME NEW m \in Messages, NEW d, DecisionMade(d, m), NEW p, PlanMade(p, d, m),
         ResolveAction(p) = "ANSWER"
  PROVE  LowStakes(m)
<1>1. Placed(d)
  BY MadeIsPlaced
<1>2. ~Ended(p) /\ ~Refuses(p) /\ p.action # "ASK_ONE_QUESTION"
  BY DEF ResolveAction
<1>3. p.closure = "OPEN" /\ ~HasEnded(p) /\ p.refusal = "NONE"
  BY <1>2 DEF Ended, HasEnded, Refuses
<1>4. ~p.clarification
  BY <1>2, <1>3 DEF PlanMade, ChooseAction, HasEnded
<1>5. ~Weighty(d)
  BY <1>3, <1>4 DEF PlanMade
<1>6. Remote(d) /\ ~CriticalMedium(d) /\ ~Irreversible(d)
  BY <1>5 DEF Weighty
<1>7. m.proximity \cap {"MEDIUM", "HIGH", "IMMINENT"} = {}
  BY <1>6, ProximityIs DEF DecisionMade, ProximityRead, Remote
<1>8. MarkedRisks(m) \cap CriticalDomains = {}
  BY <1>6, MarkedIsCritical DEF DecisionMade
<1>9. "IRREVERSIBLE" \notin m.reversibility
  BY <1>6, ReversibilityIs DEF DecisionMade, ReversibilityRead, Irreversible
<1>10. m.ending \in {"none", "weak"}
  BY <1>3 DEF PlanMade, ClosureRead
<1>. QED  BY <1>7, <1>8, <1>9, <1>10 DEF LowStakes

-----------------------------------------------------------------------------
(* The model pipeline: what the assemblies make of a message.                *)

AssemblyRead(m, d, p, o) ==
  /\ d # Nothing /\ DecisionMade(d, m)
  /\ p # Nothing /\ PlanMade(p, d, m)
  /\ p.rigor = "ENFORCED" => o = Nothing
  /\ p.rigor # "ENFORCED" => o # Nothing /\ OutputMade(o, d, p)

LEMMA AssembliesRead ==
  ASSUME NEW m \in Messages
  PROVE  AssemblyRead(m, DecisionOf[m], ControlOf[m], OutputOf[m])
<1>. DEFINE d == AssembleDecisionState(m)
            p == AssembleControlPlan(m, d)
            o == AssembleOutputPlan(d, p)
<1>1. ~DecisionFails(m) /\ DecisionMade(d, m)
  BY DecisionHolds
<1>. HIDE DEF d
<1>2. Placed(d)
  BY <1>1, MadeIsPlaced
<1>3. DecisionOf[m] = d /\ d # Nothing
  <2>1. d \in DecisionState
    BY <1>2 DEF Placed, Declared
  <2>. QED  BY <1>1, <2>1, NothingIsNone DEF DecisionOf, d
<1>4. ~ControlPlanFails(m, d) /\ PlanMade(p, d, m)
  BY <1>2, PlanIsValid, PlanHolds
<1>. HIDE DEF p
<1>5. ControlOf[m] = p /\ p # Nothing
  <2>1. p \in ControlPlan
    BY <1>4 DEF PlanMade
  <2>. QED  BY <1>3, <1>4, <2>1, NothingIsNone DEF ControlOf, p
<1>6. p.rigor = "ENFORCED" => OutputOf[m] = Nothing
  <2>1. p.rigor = "ENFORCED" => OutputPlanFails(d, p)
    BY <1>2, <1>4, EnforcedFails
  <2>. QED  BY <1>3, <1>5, <2>1 DEF OutputOf
<1>7. ASSUME p.rigor # "ENFORCED"
      PROVE  OutputOf[m] # Nothing /\ OutputMade(OutputOf[m], d, p)
  <2>1. ~OutputPlanFails(d, p) /\ OutputMade(o, d, p)
    BY <1>2, <1>4, <1>7, OutputHolds
  <2>2. OutputOf[m] = o
    BY <1>3, <1>5, <2>1 DEF OutputOf
  <2>. HIDE DEF o
  <2>. QED  BY <2>1, <2>2, NothingIsNone DEF OutputMade
<1>. QED  BY <1>1, <1>3, <1>4, <1>5, <1>6, <1>7 DEF AssemblyRead

-----------------------------------------------------------------------------
(* The model pipeline: what the model sent.                                  *)

LEMMA CodesTyped ==
  ASSUME NEW m \in Messages, NEW r \in Replies, NEW d, NEW o, o.action \in OutputAction
  PROVE  InvocationFailure(m, o, r) \in FailureCode /\ VerifyFailure(d, o, r) \in FailureCode
<1>1. ExpressionFailure(m, r) \in FailureCode
  <2>1. CASE m.long
    BY <2>1 DEF ExpressionFailure, FailureCode
  <2>2. CASE ~m.long /\ r.http = "timeout"
    BY <2>2 DEF ExpressionFailure, FailureCode
  <2>3. CASE ~m.long /\ r.http = "error"
    BY <2>3 DEF ExpressionFailure, FailureCode
  <2>4. CASE ~m.long /\ r.http = "malformed"
    BY <2>4 DEF ExpressionFailure, FailureCode
  <2>5. CASE ~m.long /\ r.http \notin {"timeout", "error", "malformed"}
    BY <2>5 DEF ExpressionFailure, TextFailure, FailureCode
  <2>. QED  BY <2>1, <2>2, <2>3, <2>4, <2>5
<1>2. InvocationFailure(m, o, r) \in FailureCode
  BY <1>1 DEF InvocationFailure, FailureCode
<1>3. VerifyFailure(d, o, r) \in FailureCode
  BY DEF VerifyFailure, ObjectFailure, PlainFailure, FailureCode
<1>. QED  BY <1>2, <1>3

\* A reply that came through both checks.
Clean(r, o) ==
  /\ r.marks \cap {"claims", "phrase", "blank", "long"} = {}
  /\ o.action = "ANSWER" => "discloses" \in r.marks

LEMMA VerifiedIsClean ==
  ASSUME NEW m \in Messages, NEW r \in Replies, NEW d, NEW o, o.disclosure # "NONE",
         InvocationFailure(m, o, r) = "NONE", VerifyFailure(d, o, r) = "NONE"
  PROVE  Clean(r, o)
<1>1. ExpressionFailure(m, r) = "NONE"
  BY DEF InvocationFailure
<1>2. ~m.long /\ r.http \notin {"timeout", "error", "malformed"}
  <2>1. ~m.long
    BY <1>1 DEF ExpressionFailure
  <2>2. r.http # "timeout"
    BY <1>1, <2>1 DEF ExpressionFailure
  <2>3. r.http # "error"
    BY <1>1, <2>1 DEF ExpressionFailure
  <2>4. r.http # "malformed"
    BY <1>1, <2>1 DEF ExpressionFailure
  <2>. QED  BY <2>1, <2>2, <2>3, <2>4
<1>3. r.marks \cap {"blank", "long"} = {} /\ "claims" \notin r.marks
  <2>1. ExpressionFailure(m, r) =
          IF r.marks \cap {"blank", "long"} # {} THEN "SCHEMA_MISMATCH"
          ELSE IF "claims" \in r.marks THEN "CONTRACT_VIOLATION" ELSE "NONE"
    BY <1>2 DEF ExpressionFailure, TextFailure
  <2>. QED  BY <1>1, <2>1
<1>4. "phrase" \notin r.marks
  BY DEF VerifyFailure, ObjectFailure, PlainFailure
<1>5. ASSUME o.action = "ANSWER" PROVE "discloses" \in r.marks
  <2>1. CASE r.form = "object"
    <3>1. ~ActionFailure(d, o, r)
      BY <2>1 DEF VerifyFailure, ObjectFailure
    <3>2. Discloses(o, r)
      BY <1>5, <3>1 DEF ActionFailure
    <3>. QED  BY <3>2 DEF Discloses
  <2>2. CASE r.form # "object"
    BY <1>5, <2>2 DEF VerifyFailure, PlainFailure, Discloses
  <2>. QED  BY <2>1, <2>2
<1>. QED  BY <1>3, <1>4, <1>5 DEF Clean

-----------------------------------------------------------------------------
(* The model pipeline: the inductive invariant.                              *)

\* Once made, a state or plan is what its assembly makes of the message; a plan that
\* failed has no output; and a reply that goes on has passed the checks made so far.
CallInv ==
  /\ CallTypeOK
  /\ stage = "idle" => Idle("idle")
  /\ stage # "idle" => message \in Messages
  /\ stage \notin {"idle", "received"} => decision = DecisionOf[message]
  /\ stage \notin {"idle", "received", "decided"} => control = ControlOf[message]
  /\ stage \notin {"idle", "received", "decided", "controlled"} => output = OutputOf[message]
  /\ stage \in {"idle", "received", "decided", "controlled"} => output = Nothing
  /\ stage \in {"planned", "asked", "replied", "refused"} => output # Nothing
  /\ stage = "replied" => reply \in Replies /\ InvocationFailure(message, output, reply) = "NONE"
  /\ stage = "done" =>
      /\ result \in ModelInvocationResult
      /\ result.code \notin {"DECISION_ASSEMBLY_FAILED", "CONTROL_PLAN_ASSEMBLY_FAILED"}
      /\ result.code = "OUTPUT_PLAN_ASSEMBLY_FAILED" => output = Nothing
      /\ result.ok => output # Nothing
      /\ result.source = "model" =>
          /\ reply \in Replies
          /\ InvocationFailure(message, output, reply) = "NONE"
          /\ VerifyFailure(decision, output, reply) = "NONE"

LEMMA CallInitInv == CallInit => CallInv
  BY DEF CallInit, CallInv, CallTypeOK, Idle, Stage

LEMMA FailedTyped ==
  ASSUME NEW code \in FailureCode
  PROVE  /\ Failed(code) \in ModelInvocationResult
         /\ Failed(code).code = code /\ Failed(code).ok = FALSE /\ Failed(code).source = "none"
  BY DEF Failed, ModelInvocationResult

LEMMA DeliveredTyped ==
  ASSUME NEW kind \in {"text", "empty_text", "json"}, NEW source \in {"model", "fallback"}
  PROVE  /\ Delivered(kind, source) \in ModelInvocationResult
         /\ Delivered(kind, source).code = "NONE"
         /\ Delivered(kind, source).source = source
  BY DEF Delivered, ModelInvocationResult, FailureCode

-----------------------------------------------------------------------------
(* The model pipeline: the steps.                                            *)

LEMMA ReceiveKeeps == ASSUME CallInv, NEW m \in Messages, Receive(m) PROVE CallInv'
<1>1. CallTypeOK'
  BY DEF CallInv, CallTypeOK, Receive, Stage
<1>2. stage' = "received" /\ message' = m /\ output' = Nothing
  BY DEF CallInv, Receive
<1>. QED  BY <1>1, <1>2 DEF CallInv

LEMMA DecisionKeeps == CallInv /\ AssembleDecision => CallInv'
<1>. SUFFICES ASSUME CallInv, AssembleDecision PROVE CallInv'
  OBVIOUS
<1>1. stage = "received" /\ message \in Messages /\ output = Nothing
  BY DEF CallInv, AssembleDecision
<1>2. AssemblyRead(message, DecisionOf[message], ControlOf[message], OutputOf[message])
  BY <1>1, AssembliesRead
<1>3. DecisionOf[message] # Nothing /\ DecisionOf[message] \in DecisionState
  BY <1>2 DEF AssemblyRead, DecisionMade, Declared
<1>4. /\ stage' = "decided" /\ decision' = DecisionOf[message]
      /\ UNCHANGED <<configured, message, control, output, reply, result>>
  BY <1>3 DEF AssembleDecision, Proceed
<1>5. CallTypeOK'
  BY <1>3, <1>4 DEF CallInv, CallTypeOK, Stage
<1>. QED  BY <1>1, <1>4, <1>5 DEF CallInv

LEMMA ControlKeeps == CallInv /\ AssembleControl => CallInv'
<1>. SUFFICES ASSUME CallInv, AssembleControl PROVE CallInv'
  OBVIOUS
<1>1. stage = "decided" /\ message \in Messages /\ output = Nothing
      /\ decision = DecisionOf[message]
  BY DEF CallInv, AssembleControl
<1>2. AssemblyRead(message, DecisionOf[message], ControlOf[message], OutputOf[message])
  BY <1>1, AssembliesRead
<1>3. ControlOf[message] # Nothing /\ ControlOf[message] \in ControlPlan
  BY <1>2 DEF AssemblyRead, PlanMade
<1>4. /\ stage' = "controlled" /\ control' = ControlOf[message]
      /\ UNCHANGED <<configured, message, decision, output, reply, result>>
  BY <1>3 DEF AssembleControl, Proceed
<1>5. CallTypeOK'
  BY <1>3, <1>4 DEF CallInv, CallTypeOK, Stage
<1>. QED  BY <1>1, <1>4, <1>5 DEF CallInv

LEMMA OutputKeeps == CallInv /\ AssembleOutput => CallInv'
<1>. SUFFICES ASSUME CallInv, AssembleOutput PROVE CallInv'
  OBVIOUS
<1>1. stage = "controlled" /\ message \in Messages
      /\ decision = DecisionOf[message] /\ control = ControlOf[message]
  BY DEF CallInv, AssembleOutput
<1>2. AssemblyRead(message, DecisionOf[message], ControlOf[message], OutputOf[message])
  BY <1>1, AssembliesRead
<1>3. OutputOf[message] \in OutputPlan \cup {Nothing}
  BY <1>2 DEF AssemblyRead, OutputMade
<1>4. output' = OutputOf[message] /\ UNCHANGED <<configured, message, decision, control, reply>>
  BY DEF AssembleOutput
<1>5. CASE OutputOf[message] # Nothing
  <2>1. stage' = "planned" /\ UNCHANGED result
    BY <1>4, <1>5 DEF AssembleOutput, Proceed
  <2>2. CallTypeOK'
    BY <1>3, <1>4, <2>1 DEF CallInv, CallTypeOK, Stage
  <2>. QED  BY <1>1, <1>4, <1>5, <2>1, <2>2 DEF CallInv
<1>6. CASE OutputOf[message] = Nothing
  <2>1. stage' = "done" /\ result' = Failed("OUTPUT_PLAN_ASSEMBLY_FAILED")
    BY <1>4, <1>6 DEF AssembleOutput, Proceed, Finish
  <2>2. "OUTPUT_PLAN_ASSEMBLY_FAILED" \in FailureCode
    BY DEF FailureCode
  <2>3. /\ result' \in ModelInvocationResult /\ result'.code = "OUTPUT_PLAN_ASSEMBLY_FAILED"
        /\ result'.ok = FALSE /\ result'.source = "none"
    BY <2>1, <2>2, FailedTyped
  <2>4. CallTypeOK'
    BY <1>3, <1>4, <2>1, <2>3 DEF CallInv, CallTypeOK, Stage
  <2>. QED  BY <1>1, <1>4, <1>6, <2>1, <2>3, <2>4 DEF CallInv
<1>. QED  BY <1>5, <1>6

LEMMA RequestKeeps == CallInv /\ BuildRequest => CallInv'
<1>. SUFFICES ASSUME CallInv, BuildRequest PROVE CallInv'
  OBVIOUS
<1>1. /\ stage = "planned" /\ message \in Messages /\ output # Nothing
      /\ decision = DecisionOf[message] /\ control = ControlOf[message]
      /\ output = OutputOf[message]
  BY DEF CallInv, BuildRequest
<1>2. UNCHANGED <<configured, message, decision, control, output, reply>>
  BY DEF BuildRequest
<1>3. CASE message.reserved
  <2>1. stage' = "done" /\ result' = Failed("REQUEST_BUILD_FAILED")
    BY <1>3 DEF BuildRequest, Finish
  <2>2. "REQUEST_BUILD_FAILED" \in FailureCode
    BY DEF FailureCode
  <2>3. /\ result' \in ModelInvocationResult /\ result'.code = "REQUEST_BUILD_FAILED"
        /\ result'.ok = FALSE /\ result'.source = "none"
    BY <2>1, <2>2, FailedTyped
  <2>4. CallTypeOK'
    BY <1>2, <2>1, <2>3 DEF CallInv, CallTypeOK, Stage
  <2>. QED  BY <1>1, <1>2, <2>1, <2>3, <2>4 DEF CallInv
<1>4. CASE ~message.reserved
  <2>1. stage' \in {"asked", "raised"} /\ UNCHANGED result
    BY <1>4 DEF BuildRequest
  <2>2. CallTypeOK'
    BY <1>2, <2>1 DEF CallInv, CallTypeOK, Stage
  <2>. QED  BY <1>1, <1>2, <2>1, <2>2 DEF CallInv
<1>. QED  BY <1>3, <1>4

\* The plan a model is asked about.
LEMMA AskedPlan ==
  ASSUME CallInv, stage \in {"asked", "replied", "refused"}
  PROVE  /\ message \in Messages /\ output # Nothing
         /\ decision = DecisionOf[message] /\ control = ControlOf[message]
         /\ output = OutputOf[message]
         /\ output.action \in OutputAction
<1>1. /\ message \in Messages /\ output # Nothing
      /\ decision = DecisionOf[message] /\ control = ControlOf[message]
      /\ output = OutputOf[message]
  BY DEF CallInv
<1>2. output \in OutputPlan
  BY <1>1 DEF CallInv, CallTypeOK
<1>. QED  BY <1>1, <1>2 DEF OutputPlan

LEMMA InvokeKeeps == ASSUME CallInv, NEW r \in Replies, InvokeModel(r) PROVE CallInv'
<1>1. stage = "asked"
  BY DEF InvokeModel
<1>2. /\ message \in Messages /\ output # Nothing
      /\ decision = DecisionOf[message] /\ control = ControlOf[message]
      /\ output = OutputOf[message] /\ output.action \in OutputAction
  BY <1>1, AskedPlan
<1>3. reply' = r /\ UNCHANGED <<configured, message, decision, control, output>>
  BY DEF InvokeModel
<1>. DEFINE code == InvocationFailure(message, output, r)
<1>4. code \in FailureCode
  BY <1>2, CodesTyped
<1>5. CASE code = "NONE"
  <2>1. stage' = "replied" /\ UNCHANGED result
    BY <1>5 DEF InvokeModel
  <2>2. CallTypeOK'
    BY <1>3, <2>1 DEF CallInv, CallTypeOK, Stage
  <2>. QED  BY <1>2, <1>3, <1>5, <2>1, <2>2 DEF CallInv
<1>6. CASE code # "NONE"
  <2>1. stage' = "refused" /\ result' = Failed(code)
    BY <1>6 DEF InvokeModel
  <2>2. result' \in ModelInvocationResult
    BY <1>4, <2>1, FailedTyped
  <2>3. CallTypeOK'
    BY <1>3, <2>1, <2>2 DEF CallInv, CallTypeOK, Stage
  <2>. QED  BY <1>2, <1>3, <2>1, <2>3 DEF CallInv
<1>. QED  BY <1>5, <1>6

LEMMA VerifyKeeps == CallInv /\ VerifyOutput => CallInv'
<1>. SUFFICES ASSUME CallInv, VerifyOutput PROVE CallInv'
  OBVIOUS
<1>1. stage = "replied"
  BY DEF VerifyOutput
<1>2. /\ message \in Messages /\ output # Nothing
      /\ decision = DecisionOf[message] /\ control = ControlOf[message]
      /\ output = OutputOf[message] /\ output.action \in OutputAction
  BY <1>1, AskedPlan
<1>3. reply \in Replies /\ InvocationFailure(message, output, reply) = "NONE"
  BY <1>1 DEF CallInv
<1>4. UNCHANGED <<configured, message, decision, control, output, reply>>
  BY DEF VerifyOutput
<1>. DEFINE code == VerifyFailure(decision, output, reply)
            kind == IF OutputFormat(output) = "json" THEN "json"
                    ELSE IF "empty" \in reply.marks THEN "empty_text" ELSE "text"
<1>5. code \in FailureCode
  BY <1>2, <1>3, CodesTyped
<1>6. CASE code = "NONE"
  <2>1. stage' = "done" /\ result' = Delivered(kind, "model")
    BY <1>6 DEF VerifyOutput
  <2>2. kind \in {"text", "empty_text", "json"}
    OBVIOUS
  <2>. HIDE DEF kind
  <2>3. result' \in ModelInvocationResult /\ result'.code = "NONE"
    BY <2>1, <2>2, DeliveredTyped
  <2>4. CallTypeOK'
    BY <1>4, <2>1, <2>3 DEF CallInv, CallTypeOK, Stage
  <2>. QED  BY <1>2, <1>3, <1>4, <1>6, <2>1, <2>3, <2>4 DEF CallInv
<1>7. CASE code # "NONE"
  <2>1. stage' = "refused" /\ result' = Failed(code)
    BY <1>7 DEF VerifyOutput
  <2>2. result' \in ModelInvocationResult
    BY <1>5, <2>1, FailedTyped
  <2>3. CallTypeOK'
    BY <1>4, <2>1, <2>2 DEF CallInv, CallTypeOK, Stage
  <2>. QED  BY <1>2, <1>4, <2>1, <2>3 DEF CallInv
<1>. QED  BY <1>6, <1>7

LEMMA FallbackKeeps == CallInv /\ Fallback => CallInv'
<1>. SUFFICES ASSUME CallInv, Fallback PROVE CallInv'
  OBVIOUS
<1>1. stage = "refused" /\ stage' = "done"
      /\ result' = Delivered(FallbackKind(output), "fallback")
      /\ UNCHANGED <<configured, message, decision, control, output, reply>>
  BY DEF Fallback
<1>2. /\ message \in Messages /\ output # Nothing
      /\ decision = DecisionOf[message] /\ control = ControlOf[message]
      /\ output = OutputOf[message]
  BY <1>1, AskedPlan
<1>3. FallbackKind(output) \in {"text", "empty_text", "json"}
  BY DEF FallbackKind
<1>4. result' \in ModelInvocationResult /\ result'.code = "NONE" /\ result'.source = "fallback"
  BY <1>1, <1>3, DeliveredTyped
<1>5. CallTypeOK'
  BY <1>1, <1>4 DEF CallInv, CallTypeOK, Stage
<1>. QED  BY <1>1, <1>2, <1>4, <1>5 DEF CallInv

LEMMA ReturnKeeps == CallInv /\ Return => CallInv'
<1>. SUFFICES ASSUME CallInv, Return PROVE CallInv'
  OBVIOUS
<1>1. Idle("idle")' /\ UNCHANGED configured
  BY DEF Return, Idle
<1>2. CallTypeOK'
  BY <1>1 DEF CallInv, CallTypeOK, Idle, Stage
<1>. QED  BY <1>1, <1>2 DEF CallInv, Idle

LEMMA CallStepInv == CallInv /\ [CallStep]_callVars => CallInv'
<1>. SUFFICES ASSUME CallInv, [CallStep]_callVars PROVE CallInv'
  OBVIOUS
<1>1. CASE \E m \in Messages : Receive(m)
  BY <1>1, ReceiveKeeps
<1>2. CASE AssembleDecision
  BY <1>2, DecisionKeeps
<1>3. CASE AssembleControl
  BY <1>3, ControlKeeps
<1>4. CASE AssembleOutput
  BY <1>4, OutputKeeps
<1>5. CASE BuildRequest
  BY <1>5, RequestKeeps
<1>6. CASE \E r \in Replies : InvokeModel(r)
  BY <1>6, InvokeKeeps
<1>7. CASE VerifyOutput
  BY <1>7, VerifyKeeps
<1>8. CASE Fallback
  BY <1>8, FallbackKeeps
<1>9. CASE Return
  BY <1>9, ReturnKeeps
<1>10. CASE UNCHANGED callVars
  BY <1>10 DEF CallInv, CallTypeOK, callVars, Idle
<1>. QED  BY <1>1, <1>2, <1>3, <1>4, <1>5, <1>6, <1>7, <1>8, <1>9, <1>10 DEF CallStep

LEMMA CallInvHolds == CallSpec => []CallInv
<1>. QED  BY CallInitInv, CallStepInv, PTL DEF CallSpec

\* The types of the call: every assembly stays inside its schema, and every failure has
\* one of the codes of the result.
THEOREM CallTypeCorrect == CallSpec => []CallTypeOK
<1>1. CallInv => CallTypeOK
  BY DEF CallInv
<1>. QED  BY <1>1, CallInvHolds, PTL

\* Whatever the message, the reply and the outcome: what is behind an answer is far from
\* acting, reversible, without a critical domain and not the end of the conversation.
THEOREM AnswersAreLowStakes == CallSpec => []AnswersOnlyLowStakes
<1>1. CallInv => AnswersOnlyLowStakes
  <2>. SUFFICES ASSUME CallInv, Answered, output.action = "ANSWER"
                PROVE  LowStakes(message)
    BY DEF AnswersOnlyLowStakes, LowStakes
  <2>1. message \in Messages /\ output # Nothing /\ output = OutputOf[message]
    BY DEF CallInv, Answered
  <2>2. AssemblyRead(message, DecisionOf[message], ControlOf[message], OutputOf[message])
    BY <2>1, AssembliesRead
  <2>3. OutputMade(output, DecisionOf[message], ControlOf[message])
    BY <2>1, <2>2 DEF AssemblyRead
  <2>4. DecisionMade(DecisionOf[message], message)
        /\ PlanMade(ControlOf[message], DecisionOf[message], message)
        /\ ResolveAction(ControlOf[message]) = "ANSWER"
    BY <2>2, <2>3 DEF AssemblyRead, OutputMade
  <2>. QED  BY <2>1, <2>4, AnswerIsLowStakes
<1>. QED  BY <1>1, CallInvHolds, PTL

\* For every message the first two assemblies agree with the invariants checked of them,
\* and the third fails on ENFORCED rigor alone.
THEOREM FailuresAreEnforced == CallSpec => []FailsOnlyWhenEnforced
<1>1. CallInv => FailsOnlyWhenEnforced
  <2>. SUFFICES ASSUME CallInv PROVE FailsOnlyWhenEnforced
    OBVIOUS
  <2>1. stage = "done" =>
          result.code \notin {"DECISION_ASSEMBLY_FAILED", "CONTROL_PLAN_ASSEMBLY_FAILED"}
    BY DEF CallInv
  <2>2. ASSUME message \in Messages, control = ControlOf[message], output = OutputOf[message]
        PROVE  control.rigor = "ENFORCED" <=> output = Nothing
    <3>1. AssemblyRead(message, DecisionOf[message], ControlOf[message], OutputOf[message])
      BY <2>2, AssembliesRead
    <3>. QED  BY <2>2, <3>1 DEF AssemblyRead
  <2>3. stage = "done" /\ result.code = "OUTPUT_PLAN_ASSEMBLY_FAILED" => control.rigor = "ENFORCED"
    BY <2>2 DEF CallInv
  <2>4. output # Nothing => control.rigor # "ENFORCED"
    <3>1. output # Nothing => stage \notin {"idle", "received", "decided", "controlled"}
      BY DEF CallInv
    <3>. QED  BY <2>2, <3>1 DEF CallInv
  <2>. QED  BY <2>1, <2>3, <2>4 DEF FailsOnlyWhenEnforced
<1>. QED  BY <1>1, CallInvHolds, PTL

\* Whatever the model sends: text it wrote is shown only without claims and forbidden
\* phrases, and an answer that has unknowns to disclose discloses them.
THEOREM VerifiedTextDiscloses == CallSpec => []VerifiedDiscloses
<1>1. CallInv => VerifiedDiscloses
  <2>. SUFFICES ASSUME CallInv, Answered, result.source = "model" PROVE VerifiedDiscloses
    BY DEF VerifiedDiscloses
  <2>1. /\ message \in Messages /\ output # Nothing /\ output = OutputOf[message]
        /\ reply \in Replies
        /\ InvocationFailure(message, output, reply) = "NONE"
        /\ VerifyFailure(decision, output, reply) = "NONE"
    BY DEF CallInv, Answered
  <2>2. AssemblyRead(message, DecisionOf[message], ControlOf[message], OutputOf[message])
    BY <2>1, AssembliesRead
  <2>3. output.disclosure # "NONE"
    BY <2>1, <2>2 DEF AssemblyRead, OutputMade
  <2>4. Clean(reply, output)
    BY <2>1, <2>3, VerifiedIsClean
  <2>. QED  BY <2>3, <2>4 DEF VerifiedDiscloses, Clean
<1>. QED  BY <1>1, CallInvHolds, PTL

\* A refusal the control plan requires reaches nobody: it comes with ENFORCED rigor, and
\* such a plan gets no output plan (expression_rigor_disclosure.py).
THEOREM NobodyIsRefused == CallSpec => [](output # Nothing => output.action # "REFUSE")
<1>1. CallInv => (output # Nothing => output.action # "REFUSE")
  <2>. SUFFICES ASSUME CallInv, output # Nothing PROVE output.action # "REFUSE"
    OBVIOUS
  <2>1. message \in Messages /\ output = OutputOf[message]
    BY DEF CallInv
  <2>2. AssemblyRead(message, DecisionOf[message], ControlOf[message], OutputOf[message])
    BY <2>1, AssembliesRead
  <2>. QED  BY <2>1, <2>2 DEF AssemblyRead, OutputMade
<1>. QED  BY <1>1, CallInvHolds, PTL
=============================================================================
