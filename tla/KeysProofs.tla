----------------------------- MODULE KeysProofs -----------------------------
(***************************************************************************)
(* What the key slots of a card have after a call, for any slots, any kind *)
(* of card and any number of calls.                                        *)
(***************************************************************************)
EXTENDS KeysProps, SequenceTheorems, TLAPS

\* Tasks a call of this name may consist of
Allowed ==
    [import   |-> {"list", "ard", "choose", "attributes", "key", "fingerprint", "time"},
     generate |-> {"ard", "generate", "time", "fingerprint"},
     set      |-> {"ard", "list", "choose", "attributes"},
     touch    |-> {"cached", "touch"},
     once     |-> {"cached", "once"},
     attest   |-> {"cached", "prompt", "attest"},
     public   |-> {"ard", "public"},
     get      |-> {"cached"}]

\* Task t is on the list.
Has(s, t) == \E i \in DOMAIN s : s[i] = t

\* No task a comes after a task b; every task a is followed by a task b.
Before(s, a, b) == \A i, j \in DOMAIN s : s[i] = b /\ i < j => s[j] # a
Then(s, a, b) == \A i \in DOMAIN s : s[i] = a => \E j \in DOMAIN s : i < j /\ s[j] = b

\* A list of tasks as the calls make it, or what is left of one
WellPlanned(name, s) ==
    /\ s \in Seq(Tasks)
    /\ name \in Names \ {"none"}
    /\ \A i \in DOMAIN s : s[i] \in Allowed[name]
    /\ Before(s, "key", "fingerprint") /\ Before(s, "generate", "fingerprint")
    /\ Before(s, "ard", "generate") /\ Before(s, "ard", "public")
    /\ Before(s, "cached", "prompt") /\ Before(s, "list", "choose")
    /\ Before(s, "choose", "choose")
    /\ name = "import" => /\ Then(s, "attributes", "key")
                          /\ Then(s, "attributes", "fingerprint")
                          /\ Then(s, "attributes", "time")
    /\ name = "attest" => Then(s, "cached", "prompt")

\* A task done leaves a well planned list.
LEMMA TailIsPlanned ==
  ASSUME NEW name, NEW s, WellPlanned(name, s), s # <<>>
  PROVE  /\ WellPlanned(name, Tail(s))
         /\ \A t : Has(s, t) <=> Has(Tail(s), t) \/ t = Head(s)
<1>1. s \in Seq(Tasks)
  BY DEF WellPlanned
<1>2. /\ Tail(s) \in Seq(Tasks) /\ Len(Tail(s)) = Len(s) - 1 /\ Len(s) \in Nat \ {0}
      /\ \A i \in 1..Len(Tail(s)) : Tail(s)[i] = s[i + 1]
      /\ DOMAIN Tail(s) = 1..Len(Tail(s)) /\ DOMAIN s = 1..Len(s)
      /\ Head(s) = s[1]
  BY <1>1
<1>3. ASSUME NEW a, NEW b, Before(s, a, b) PROVE Before(Tail(s), a, b)
  BY <1>2, <1>3 DEF Before
<1>4. ASSUME NEW a, NEW b, Then(s, a, b) PROVE Then(Tail(s), a, b)
  <2> SUFFICES ASSUME NEW i \in DOMAIN Tail(s), Tail(s)[i] = a
               PROVE  \E j \in DOMAIN Tail(s) : i < j /\ Tail(s)[j] = b
    BY DEF Then
  <2>1. i + 1 \in DOMAIN s /\ s[i + 1] = a
    BY <1>2
  <2>2. PICK k \in DOMAIN s : i + 1 < k /\ s[k] = b
    BY <1>4, <2>1 DEF Then
  <2>3. k - 1 \in DOMAIN Tail(s) /\ i < k - 1 /\ Tail(s)[k - 1] = b
    BY <1>2, <2>2
  <2>. QED
    BY <2>3
<1>5. WellPlanned(name, Tail(s))
  BY <1>2, <1>3, <1>4 DEF WellPlanned
<1>6. ASSUME NEW t PROVE Has(s, t) <=> Has(Tail(s), t) \/ t = Head(s)
  <2>1. ASSUME NEW i \in DOMAIN s, s[i] = t, i # 1
        PROVE  \E j \in DOMAIN Tail(s) : Tail(s)[j] = t
    <3>1. i - 1 \in DOMAIN Tail(s) /\ Tail(s)[i - 1] = t
      BY <1>2, <2>1
    <3>. QED
      BY <3>1
  <2>2. ASSUME NEW i \in DOMAIN Tail(s), Tail(s)[i] = t
        PROVE  \E j \in DOMAIN s : s[j] = t
    <3>1. i + 1 \in DOMAIN s /\ s[i + 1] = t
      BY <1>2, <2>2
    <3>. QED
      BY <3>1
  <2>. QED
    BY <1>2, <2>1, <2>2 DEF Has
<1>. QED
  BY <1>5, <1>6

\* Lists of tasks put together
LEMMA Joined ==
  ASSUME NEW s \in Seq(Tasks), NEW t \in Seq(Tasks), NEW u \in Seq(Tasks),
         Len(u) = Len(s) + Len(t),
         \A i \in 1..Len(s) : u[i] = s[i], \A i \in 1..Len(t) : u[Len(s) + i] = t[i]
  PROVE  s \o t = u
<1>1. \A i \in 1..Len(s \o t) : (s \o t)[i] = u[i]
  <2> TAKE i \in 1..Len(s \o t)
  <2>1. CASE i <= Len(s)
    BY <2>1, ConcatProperties
  <2>2. CASE i > Len(s)
    <3>1. i - Len(s) \in 1..Len(t)
      BY <2>2, ConcatProperties
    <3>. QED
      BY <2>2, <3>1, ConcatProperties
  <2>. QED
    BY <2>1, <2>2
<1>. QED
  BY <1>1, ConcatProperties, SeqEqual

\* A list of which nothing is done yet
Whole(name, s) ==
    /\ WellPlanned(name, s) /\ s # <<>>
    /\ name = "import" => Has(s, "key")
    /\ name \in {"import", "generate"} => Has(s, "fingerprint") /\ Has(s, "time")
    /\ name = "generate" => Has(s, "generate")
    /\ name \in {"generate", "public"} => Has(s, "ard")
    /\ name = "public" => Has(s, "public")
    /\ name = "attest" => Has(s, "cached") /\ Has(s, "prompt")

\* Every call makes such a list.
LEMMA CallsArePlanned ==
  /\ \A want : Whole("import", (IF want.kind = "rsa" THEN <<"list", "ard", "choose">>
                                      ELSE <<"list", "choose">>) \o Store)
  /\ Whole("generate", <<"ard", "generate", "time", "fingerprint">>)
  /\ Whole("set", <<"ard", "list", "choose", "attributes">>)
  /\ Whole("touch", <<"cached", "touch">>)
  /\ Whole("once", <<"cached", "once">>)
  /\ Whole("attest", <<"cached", "prompt", "attest">>)
  /\ Whole("public", <<"ard", "public">>)
  /\ Whole("get", <<"cached">>)
<1>1. Whole("import", <<"list", "choose", "key", "fingerprint", "time">>)
  BY DEF Whole, Has, WellPlanned, Allowed, Before, Then, Tasks, Names
<1>2. Whole("import", <<"list", "ard", "choose", "key", "fingerprint", "time">>)
  BY DEF Whole, Has, WellPlanned, Allowed, Before, Then, Tasks, Names
<1>3. Whole("import", <<"list", "choose", "attributes", "key", "fingerprint", "time">>)
  BY DEF Whole, Has, WellPlanned, Allowed, Before, Then, Tasks, Names
<1>4. Whole("import", <<"list", "ard", "choose", "attributes", "key", "fingerprint", "time">>)
  BY DEF Whole, Has, WellPlanned, Allowed, Before, Then, Tasks, Names
<1>5. Whole("generate", <<"ard", "generate", "time", "fingerprint">>)
  BY DEF Whole, Has, WellPlanned, Allowed, Before, Then, Tasks, Names
<1>6. Whole("set", <<"ard", "list", "choose", "attributes">>)
  BY DEF Whole, Has, WellPlanned, Allowed, Before, Then, Tasks, Names
<1>7. Whole("touch", <<"cached", "touch">>)
  BY DEF Whole, Has, WellPlanned, Allowed, Before, Then, Tasks, Names
<1>8. Whole("once", <<"cached", "once">>)
  BY DEF Whole, Has, WellPlanned, Allowed, Before, Then, Tasks, Names
<1>9. Whole("attest", <<"cached", "prompt", "attest">>)
  BY DEF Whole, Has, WellPlanned, Allowed, Before, Then, Tasks, Names
<1>10. Whole("public", <<"ard", "public">>)
  BY DEF Whole, Has, WellPlanned, Allowed, Before, Then, Tasks, Names
<1>11. Whole("get", <<"cached">>)
  BY DEF Whole, Has, WellPlanned, Allowed, Before, Then, Tasks, Names
<1>12. ASSUME NEW want
       PROVE  Whole("import", (IF want.kind = "rsa" THEN <<"list", "ard", "choose">>
                                      ELSE <<"list", "choose">>) \o Store)
  <2>2. <<"list", "choose">> \o <<"key", "fingerprint", "time">>
          = <<"list", "choose", "key", "fingerprint", "time">>
    <3> DEFINE s == <<"list", "choose">>
               r == <<"key", "fingerprint", "time">>
               u == <<"list", "choose", "key", "fingerprint", "time">>
    <3>1. s \in Seq(Tasks) /\ r \in Seq(Tasks) /\ u \in Seq(Tasks)
      BY DEF Tasks
    <3>2. Len(u) = Len(s) + Len(r)
      OBVIOUS
    <3>3. \A i \in 1..Len(s) : u[i] = s[i]
      OBVIOUS
    <3>4. \A i \in 1..Len(r) : u[Len(s) + i] = r[i]
      OBVIOUS
    <3> HIDE DEF s, r, u
    <3>5. s \o r = u
      BY <3>1, <3>2, <3>3, <3>4, Joined
    <3>. QED
      BY <3>5 DEF s, r, u
  <2>3. <<"list", "choose">> \o <<"attributes", "key", "fingerprint", "time">>
          = <<"list", "choose", "attributes", "key", "fingerprint", "time">>
    <3> DEFINE s == <<"list", "choose">>
               r == <<"attributes", "key", "fingerprint", "time">>
               u == <<"list", "choose", "attributes", "key", "fingerprint", "time">>
    <3>1. s \in Seq(Tasks) /\ r \in Seq(Tasks) /\ u \in Seq(Tasks)
      BY DEF Tasks
    <3>2. Len(u) = Len(s) + Len(r)
      OBVIOUS
    <3>3. \A i \in 1..Len(s) : u[i] = s[i]
      OBVIOUS
    <3>4. \A i \in 1..Len(r) : u[Len(s) + i] = r[i]
      OBVIOUS
    <3> HIDE DEF s, r, u
    <3>5. s \o r = u
      BY <3>1, <3>2, <3>3, <3>4, Joined
    <3>. QED
      BY <3>5 DEF s, r, u
  <2>4. <<"list", "ard", "choose">> \o <<"key", "fingerprint", "time">>
          = <<"list", "ard", "choose", "key", "fingerprint", "time">>
    <3> DEFINE s == <<"list", "ard", "choose">>
               r == <<"key", "fingerprint", "time">>
               u == <<"list", "ard", "choose", "key", "fingerprint", "time">>
    <3>1. s \in Seq(Tasks) /\ r \in Seq(Tasks) /\ u \in Seq(Tasks)
      BY DEF Tasks
    <3>2. Len(u) = Len(s) + Len(r)
      OBVIOUS
    <3>3. \A i \in 1..Len(s) : u[i] = s[i]
      OBVIOUS
    <3>4. \A i \in 1..Len(r) : u[Len(s) + i] = r[i]
      OBVIOUS
    <3> HIDE DEF s, r, u
    <3>5. s \o r = u
      BY <3>1, <3>2, <3>3, <3>4, Joined
    <3>. QED
      BY <3>5 DEF s, r, u
  <2>5. <<"list", "ard", "choose">> \o <<"attributes", "key", "fingerprint", "time">>
          = <<"list", "ard", "choose", "attributes", "key", "fingerprint", "time">>
    <3> DEFINE s == <<"list", "ard", "choose">>
               r == <<"attributes", "key", "fingerprint", "time">>
               u == <<"list", "ard", "choose", "attributes", "key", "fingerprint", "time">>
    <3>1. s \in Seq(Tasks) /\ r \in Seq(Tasks) /\ u \in Seq(Tasks)
      BY DEF Tasks
    <3>2. Len(u) = Len(s) + Len(r)
      OBVIOUS
    <3>3. \A i \in 1..Len(s) : u[i] = s[i]
      OBVIOUS
    <3>4. \A i \in 1..Len(r) : u[Len(s) + i] = r[i]
      OBVIOUS
    <3> HIDE DEF s, r, u
    <3>5. s \o r = u
      BY <3>1, <3>2, <3>3, <3>4, Joined
    <3>. QED
      BY <3>5 DEF s, r, u
  <2>. QED
    BY <1>1, <1>2, <1>3, <1>4, <2>2, <2>3, <2>4, <2>5 DEF Store
<1>. QED
  BY <1>5, <1>6, <1>7, <1>8, <1>9, <1>10, <1>11, <1>12

-----------------------------------------------------------------------------
(* Types.                                                                  *)

\* Attributes that are chosen for a key are of RSA or ECC.
Known == {a \in Attributes : a.kind \in {"rsa", "ecc"}}

\* A simple choice of algorithm is one that a caller can want,
LEMMA SimpleIsWanted ==
  ASSUME NEW algo \in AlgoSimple, NEW s \in KeyType
  PROVE  Simple(algo, s) \in Want
BY DEF Simple, SimpleEcc, AlgoSimple, Bits, Nist, WantRsa, WantEcc, Want, Curve, Oid, EccType

\* The attributes that are chosen are of the right kind and well formed.
LEMMA DetermineTyped ==
  ASSUME NEW want \in Want, NEW s, NEW lists \in SUBSET Lists, NEW current,
         want.kind = "rsa" => current \in Attributes
  PROVE  Determine(want, s, current, lists) \subseteq Known
<1>1. ASSUME NEW l \in Lists, NEW i \in DOMAIN l PROVE l[i].attributes \in Attributes
  <2> DEFINE R == [slot : KeyType, attributes : Attributes]
  <2>1. l \in Seq(R)
    BY DEF Lists
  <2> HIDE DEF R
  <2>2. l[i] \in R
    BY <2>1, ElementOfSeq
  <2>. QED
    BY <2>2 DEF R
<1>2. CASE want.kind = "rsa"
  <2>1. want.bits \in Nat
    BY <1>2 DEF Want
  <2>2. ASSUME NEW l \in Lists PROVE CardAlgoRsa(l, s, want.bits) \subseteq Known
    BY <1>1, <2>2 DEF CardAlgoRsa, ForKeyType, Known
  <2>3. Rsa(want.bits, 32, 0) \in Known
    BY <2>1 DEF Rsa, Known, Attributes
  <2>4. ASSUME current.kind = "rsa" PROVE Rsa(want.bits, current.e, current.format) \in Known
    <3>1. current.e \in Nat /\ current.format \in Nat
      BY <1>2, <2>4 DEF Attributes
    <3>. QED
      BY <2>1, <3>1 DEF Rsa, Known, Attributes
  <2>. QED
    BY <1>2, <2>2, <2>3, <2>4 DEF Determine, DetermineRsa
<1>3. CASE want.kind # "rsa"
  <2>1. want.type \in EccType /\ want.curve \in Curve
    BY <1>3 DEF Want
  <2>2. ASSUME NEW f \in {{}, {255}} PROVE Ecc(want.type, want.curve, f) \in Known
    BY <2>1, <2>2 DEF Ecc, Known, Attributes
  <2>3. ASSUME NEW l \in Lists, NEW a \in CardAlgoEcc(l, s, want.curve)
        PROVE  a.format \in {{}, {255}}
    <3>1. a \in Attributes /\ a.kind = "ecc"
      BY <1>1, <2>3 DEF CardAlgoEcc, ForKeyType
    <3>. QED
      BY <3>1 DEF Attributes
  <2>4. CASE lists = {}
    BY <1>3, <2>2, <2>4 DEF Determine, DetermineEcc
  <2>5. CASE lists # {}
    <3>1. Determine(want, s, current, lists) =
            UNION {{Ecc(want.type, want.curve, a.format) : a \in CardAlgoEcc(l, s, want.curve)} :
                        l \in lists}
      BY <1>3, <2>5 DEF Determine, DetermineEcc
    <3>2. ASSUME NEW x \in Determine(want, s, current, lists) PROVE x \in Known
      <4>1. PICK l \in lists : \E a \in CardAlgoEcc(l, s, want.curve) :
                                    x = Ecc(want.type, want.curve, a.format)
        BY <3>1, <3>2
      <4>2. PICK a \in CardAlgoEcc(l, s, want.curve) : x = Ecc(want.type, want.curve, a.format)
        BY <4>1
      <4>. QED
        BY ZenonT(60), <2>2, <2>3, <4>2
    <3>. QED
      BY <3>2
  <2>. QED
    BY <2>4, <2>5
<1>. QED
  BY <1>2, <1>3

\* and what a card keeps of known attributes are attributes.
LEMMA StoredTyped == ASSUME NEW a \in Known PROVE Stored(a) \in Attributes
<1>1. CASE a.kind = "ecc"
  <2>1. a.type \in EccType /\ a.curve \in Curve
    BY <1>1 DEF Known, Attributes
  <2>. QED
    BY <1>1, <2>1 DEF Stored, Ecc, Attributes
<1>2. CASE a.kind # "ecc"
  <2>1. a.n \in Nat /\ a.e \in Nat /\ a.format \in Nat
    BY <1>2 DEF Known, Attributes
  <2>. QED
    BY <1>2, <2>1 DEF Stored, Rsa, Attributes
<1>. QED
  BY <1>1, <1>2

-----------------------------------------------------------------------------
(* The type invariant, in two parts, and the plan of the current call.     *)

DataOK ==
    /\ attrs \in [Slot -> Attributes]
    /\ key \in [Slot -> Ids] /\ fp \in [Slot -> Ids] /\ time \in [Slot -> Ids]
    /\ touch \subseteq Slot /\ once \in BOOLEAN
    /\ ~traits.touch => touch = {}
    /\ ard \in {Uncached, NoArd} \cup [attrs : [Slot -> Attributes], touch : SUBSET Slot]
    /\ ai \in {Uncached, {}, traits.list}
    /\ list \subseteq traits.list
    /\ read \in SUBSET Attributes /\ chosen \in SUBSET Known
    /\ answer \in SUBSET Attributes /\ prompted \in BOOLEAN
    /\ stale \in BOOLEAN /\ invalidated \in BOOLEAN

FlowOK ==
    /\ pc \in {"closed", "open", "idle", "busy", "panicked"}
    /\ op.name \in Names /\ op.slot \in KeyType
    /\ todo \in Seq(Tasks) /\ (pc = "busy" <=> todo # <<>>)
    /\ result \in {"none", "ok", "error"}
    /\ described \subseteq Slot /\ calls \in 0..MaxCalls

\* What the current call is: its tasks, its slot, its number and what it wants.
PlanInv ==
    /\ pc = "busy" => WellPlanned(op.name, todo) /\ calls # 0
    /\ op.name \notin {"none", "once", "get"} => op.slot \in Slot
    /\ op.name \in {"import", "set"} => op.want \in Want
    /\ op.name = "once" => op.want \in BOOLEAN

TypesInv == traits \in Cards /\ DataOK /\ FlowOK /\ PlanInv

\* The types that the proofs use are no weaker than those that the runs check.
LEMMA TypesInvTypes == TypesInv => KeysTypeOK
BY DEF TypesInv, DataOK, FlowOK, KeysTypeOK, Known

Pending(t) == Has(todo, t)

TaskStep ==
    \/ ReadArd \/ EnsureArd \/ ReadList \/ Choose
    \/ PutAttributes \/ KeepAttributes \/ PutKey \/ Generate
    \/ PutFingerprint \/ PutTime \/ PutTouch \/ NoTouch \/ PutOnce
    \/ Prompt \/ Attest \/ ReadPublic

\* A task ends with the next one, with the end of the call, or with an error.
Goes ==
    /\ pc = "busy" /\ UNCHANGED <<traits, op, calls>>
    /\ \/ Proceed
       \/ /\ todo' = <<>> /\ UNCHANGED described
          /\ \/ pc' \in {"idle", "closed"} /\ result' = "error"
             \/ pc' = "panicked" /\ result' = result

\* Every task of a call goes on with the call or ends it,
LEMMA TasksGo == ASSUME TaskStep PROVE Goes
BY DEF TaskStep, Goes, ReadArd, EnsureArd, ReadList, Choose, PutAttributes, KeepAttributes,
   PutKey, Generate, PutFingerprint, PutTime, PutTouch, NoTouch, PutOnce, Prompt, Attest,
   ReadPublic, Send, Fail, Lose, Abort, Task, callVars

\* Going on to the next task
LEMMA ProceedStep ==
  ASSUME FlowOK, PlanInv, pc = "busy", Proceed, UNCHANGED op
  PROVE  /\ todo # <<>> /\ todo' = Tail(todo) /\ WellPlanned(op.name, todo')
         /\ \A t : Pending(t) <=> Pending(t)' \/ t = Head(todo)
         /\ pc' = (IF todo' = <<>> THEN "idle" ELSE "busy")
         /\ result' = (IF todo' = <<>> THEN "ok" ELSE result)
<1>1. todo # <<>> /\ todo' = Tail(todo) /\ WellPlanned(op.name, todo)
  BY DEF FlowOK, PlanInv, Proceed
<1>2. \A t : Pending(t) <=> Pending(t)' \/ t = Head(todo)
  <2>1. \A t : Has(todo, t) <=> Has(Tail(todo), t) \/ t = Head(todo)
    BY <1>1, TailIsPlanned
  <2>. QED
    BY <1>1, <2>1 DEF Pending
<1>3. WellPlanned(op.name, todo')
  BY <1>1, TailIsPlanned
<1>. QED
  BY <1>1, <1>2, <1>3 DEF Proceed

\* and what is known of a call's plan stays true while it does.
LEMMA GoingOn ==
  ASSUME FlowOK, PlanInv, Goes
  PROVE  FlowOK' /\ PlanInv'
<1>1. CASE Proceed
  <2>1. /\ todo' \in Seq(Tasks) /\ WellPlanned(op.name, todo')
        /\ pc' = (IF todo' = <<>> THEN "idle" ELSE "busy")
        /\ result' = (IF todo' = <<>> THEN "ok" ELSE result)
    BY <1>1, ProceedStep DEF Goes, WellPlanned
  <2>2. described' \subseteq Slot
    BY <1>1 DEF Proceed, FlowOK, PlanInv
  <2>. QED
    BY <1>1, <2>1, <2>2 DEF Goes, FlowOK, PlanInv
<1>2. CASE ~Proceed
  <2>1. todo' = <<>> /\ pc' \in {"idle", "closed", "panicked"} /\ UNCHANGED <<described, op, calls>>
    BY <1>2 DEF Goes
  <2>2. result' \in {"none", "ok", "error"}
    BY <1>2 DEF Goes, FlowOK
  <2>. QED
    BY <2>1, <2>2 DEF FlowOK, PlanInv
<1>. QED
  BY <1>1, <1>2

\* Which calls have a task, and what is done by then or has still to be done.
LEMMA HeadTask ==
  ASSUME FlowOK, PlanInv, pc = "busy"
  PROVE  /\ todo # <<>>
         /\ Head(todo) = "key" => op.name = "import"
         /\ Head(todo) = "generate" => op.name = "generate"
         /\ Head(todo) \in {"fingerprint", "time"} => op.name \in {"import", "generate"}
         /\ Head(todo) \in {"attributes", "choose"} => op.name \in {"import", "set"}
         /\ Head(todo) = "ard" => op.name \in {"import", "generate", "set", "public"}
         /\ Head(todo) = "public" => op.name = "public"
         /\ Head(todo) = "touch" => op.name = "touch"
         /\ Head(todo) = "once" => op.name = "once"
         /\ Head(todo) \in {"prompt", "attest"} => op.name = "attest"
         /\ op.name = "attest" => Head(todo) \in {"cached", "prompt", "attest"}
<1>1. WellPlanned(op.name, todo) /\ todo \in Seq(Tasks) /\ todo # <<>>
  BY DEF FlowOK, PlanInv
<1>2. Head(todo) \in Allowed[op.name] /\ op.name \in Names \ {"none"}
  BY <1>1 DEF WellPlanned
<1>. QED
  BY <1>1, <1>2 DEF Allowed, Names

\* The order of the tasks
LEMMA DoneBefore ==
  ASSUME FlowOK, PlanInv, pc = "busy"
  PROVE  /\ Head(todo) = "fingerprint" => ~Pending("key") /\ ~Pending("generate")
         /\ Head(todo) \in {"generate", "public"} => ~Pending("ard")
         /\ Head(todo) = "prompt" => ~Pending("cached")
         /\ Head(todo) = "choose" => ~Pending("list") /\ ~Has(Tail(todo), "choose")
         /\ Head(todo) = "attributes" /\ op.name = "import" =>
                /\ Has(Tail(todo), "key")
                /\ Has(Tail(todo), "fingerprint")
                /\ Has(Tail(todo), "time")
         /\ Head(todo) = "cached" /\ op.name = "attest" => Has(Tail(todo), "prompt")
<1>1. /\ WellPlanned(op.name, todo) /\ todo \in Seq(Tasks) /\ todo # <<>>
      /\ Head(todo) = todo[1] /\ 1 \in DOMAIN todo /\ DOMAIN todo \subseteq Nat \ {0}
  BY DEF FlowOK, PlanInv
<1>2. ASSUME NEW a, NEW b, Before(todo, a, b), Head(todo) = b, a # b
      PROVE  ~Pending(a)
  BY <1>1, <1>2 DEF Before, Pending, Has
<1>3. ASSUME NEW a, NEW b, Then(todo, a, b), Head(todo) = a, a # b
      PROVE  Has(Tail(todo), b)
  <2>1. Has(todo, b)
    BY <1>1, <1>3 DEF Then, Has
  <2>2. Has(todo, b) <=> Has(Tail(todo), b) \/ b = Head(todo)
    BY <1>1, TailIsPlanned
  <2>. QED
    BY <1>3, <2>1, <2>2
<1>4. ASSUME Head(todo) = "fingerprint" PROVE ~Pending("key") /\ ~Pending("generate")
  BY <1>1, <1>2, <1>4 DEF WellPlanned
<1>5. ASSUME Head(todo) \in {"generate", "public"} PROVE ~Pending("ard")
  BY <1>1, <1>2, <1>5 DEF WellPlanned
<1>6. ASSUME Head(todo) = "prompt" PROVE ~Pending("cached")
  BY <1>1, <1>2, <1>6 DEF WellPlanned
<1>7. ASSUME Head(todo) = "choose" PROVE ~Pending("list") /\ ~Has(Tail(todo), "choose")
  <2>1. ~Pending("list")
    BY <1>1, <1>2, <1>7 DEF WellPlanned
  <2>2. Before(todo, "choose", "choose")
    BY <1>1 DEF WellPlanned
  <2>3. \A i \in DOMAIN Tail(todo) : i + 1 \in DOMAIN todo /\ 1 < i + 1 /\ Tail(todo)[i] = todo[i + 1]
    BY <1>1
  <2>4. ~Has(Tail(todo), "choose")
    BY <1>1, <1>7, <2>2, <2>3 DEF Before, Has
  <2>. QED
    BY <2>1, <2>4
<1>8. ASSUME Head(todo) = "attributes", op.name = "import"
      PROVE  /\ Has(Tail(todo), "key") /\ Has(Tail(todo), "fingerprint")
             /\ Has(Tail(todo), "time")
  BY <1>1, <1>3, <1>8 DEF WellPlanned
<1>9. ASSUME Head(todo) = "cached", op.name = "attest" PROVE Has(Tail(todo), "prompt")
  BY <1>1, <1>3, <1>9 DEF WellPlanned
<1>. QED
  BY <1>4, <1>5, <1>6, <1>7, <1>8, <1>9

\* A task leaves the card and the caches well formed.
LEMMA TasksKeepTypes ==
  ASSUME TypesInv, TaskStep
  PROVE  DataOK'
<1>0. /\ pc = "busy" /\ UNCHANGED traits /\ calls \in Ids /\ 0 \in Ids /\ Wrong \in Ids
      /\ op.name \notin {"none", "once", "get"} => op.slot \in Slot
      /\ DataOK /\ FlowOK /\ PlanInv /\ traits \in Cards
  BY TasksGo, KeysAssumption DEF TypesInv, Goes, FlowOK, PlanInv, Ids, Wrong
<1>1. CASE ReadArd
  <2>1. Head(todo) = "ard" => op.slot \in Slot
    BY <1>0, HeadTask
  <2>. QED
    BY <1>0, <1>1, <2>1 DEF ReadArd, Task, DataOK, cardVars
<1>2. CASE EnsureArd
  <2>1. ard' \in {Uncached, NoArd} \cup [attrs : [Slot -> Attributes], touch : SUBSET Slot]
    BY <1>0, <1>2 DEF EnsureArd, Ard, DataOK
  <2>2. stale' \in BOOLEAN /\ invalidated' \in BOOLEAN
    BY <1>0, <1>2 DEF EnsureArd, DataOK
  <2>. QED
    BY <1>0, <1>2, <2>1, <2>2 DEF EnsureArd, DataOK, cardVars, dataVars
<1>3. CASE ReadList
  <2>1. ai' \in {Uncached, {}, traits.list} /\ list' \subseteq traits.list
    BY <1>0, <1>3 DEF ReadList, DataOK
  <2>. QED
    BY <1>0, <1>3, <2>1 DEF ReadList, DataOK, cardVars
<1>4. CASE Choose
  <2>1. op.want \in Want
    BY <1>0, <1>4, HeadTask DEF Choose, Task, PlanInv
  <2>2. list \in SUBSET Lists
    BY <1>0, KeysAssumption DEF DataOK, IsCard
  <2>3. chosen' \in SUBSET Known
    BY <1>0, <1>4, <2>1, <2>2, DetermineTyped DEF Choose, DataOK
  <2>. QED
    BY <1>0, <1>4, <2>3 DEF Choose, DataOK, cardVars
<1>5. CASE PutAttributes
  <2>1. Head(todo) = "attributes" /\ op.slot \in Slot
    BY <1>0, <1>5, HeadTask DEF PutAttributes, Send, Task
  <2>2. attrs' \in [Slot -> Attributes]
    BY <1>0, <1>5, <2>1, StoredTyped DEF PutAttributes, Send, cardVars, DataOK
  <2>3. key' \in [Slot -> Ids] /\ fp' \in [Slot -> Ids] /\ time' \in [Slot -> Ids]
    BY <1>0, <1>5, <2>1 DEF PutAttributes, Send, cardVars, DataOK
  <2>. QED
    BY <1>0, <1>5, <2>2, <2>3 DEF PutAttributes, Send, DataOK, cardVars
<1>6. CASE KeepAttributes
  BY <1>0, <1>6 DEF KeepAttributes, DataOK, cardVars, dataVars
<1>7. CASE PutKey
  <2>1. key' \in [Slot -> Ids]
    BY <1>0, <1>7 DEF PutKey, Send, NewKey, cardVars, DataOK
  <2>. QED
    BY <1>0, <1>7, <2>1 DEF PutKey, Send, NewKey, cardVars, DataOK
<1>8. CASE Generate
  <2>1. key' \in [Slot -> Ids]
    BY <1>0, <1>8 DEF Generate, Send, NewKey, cardVars, DataOK
  <2>2. answer' \in SUBSET Attributes
    <3>1. op.slot \in Slot
      BY <1>0, <1>8, HeadTask DEF Generate, Send, Task
    <3>. QED
      BY <1>0, <1>8, <3>1 DEF Generate, Decoded, DataOK
  <2>. QED
    BY <1>0, <1>8, <2>1, <2>2 DEF Generate, Send, NewKey, cardVars, DataOK
<1>9. CASE PutFingerprint
  <2>1. fp' \in [Slot -> Ids]
    BY <1>0, <1>9 DEF PutFingerprint, Send, cardVars, DataOK
  <2>. QED
    BY <1>0, <1>9, <2>1 DEF PutFingerprint, Send, cardVars, DataOK
<1>10. CASE PutTime
  <2>1. time' \in [Slot -> Ids]
    BY <1>0, <1>10 DEF PutTime, Send, cardVars, DataOK
  <2>. QED
    BY <1>0, <1>10, <2>1 DEF PutTime, Send, cardVars, DataOK
<1>11. CASE PutTouch
  <2>1. op.slot \in Slot
    BY <1>0, <1>11, HeadTask DEF PutTouch, Send, Task
  <2>2. touch' \subseteq Slot
    BY <1>0, <1>11, <2>1 DEF PutTouch, Send, cardVars, DataOK
  <2>3. stale' \in BOOLEAN
    BY <1>11 DEF PutTouch
  <2>. QED
    BY <1>0, <1>11, <2>2, <2>3 DEF PutTouch, Send, cardVars, DataOK
<1>12. CASE NoTouch
  BY <1>0, <1>12 DEF NoTouch, DataOK, cardVars, dataVars
<1>13. CASE PutOnce
  <2>1. op.want \in BOOLEAN
    BY <1>0, <1>13, HeadTask DEF PutOnce, Send, Task, PlanInv
  <2>2. once' \in BOOLEAN
    BY <1>0, <1>13, <2>1 DEF PutOnce, Send, cardVars, DataOK
  <2>. QED
    BY <1>0, <1>13, <2>2 DEF PutOnce, Send, cardVars, DataOK
<1>14. CASE Prompt
  <2>1. prompted' \in BOOLEAN
    BY <1>14 DEF Prompt
  <2>. QED
    BY <1>0, <1>14, <2>1 DEF Prompt, cardVars, DataOK
<1>15. CASE Attest
  BY <1>0, <1>15 DEF Attest, DataOK, cardVars, dataVars
<1>16. CASE ReadPublic
  <2>1. op.slot \in Slot
    BY <1>0, <1>16, HeadTask DEF ReadPublic, Task
  <2>2. answer' \in SUBSET Attributes
    BY <1>0, <1>16, <2>1 DEF ReadPublic, Decoded, DataOK
  <2>. QED
    BY <1>0, <1>16, <2>2 DEF ReadPublic, cardVars, DataOK
<1>. QED
  BY <1>1, <1>2, <1>3, <1>4, <1>5, <1>6, <1>7, <1>8, <1>9, <1>10, <1>11, <1>12, <1>13,
     <1>14, <1>15, <1>16 DEF TaskStep

\* The calls, one for each of those of the specification
Calling ==
    \/ \E s \in Slot, want \in Imported : ImportKey(s, want)
    \/ \E s \in Slot : GenerateKey(s)
    \/ \E s \in Slot, algo \in Simples : SetAlgorithm(s, algo)
    \/ \E s \in Slot, on \in BOOLEAN : SetTouchPolicy(s, on)
    \/ \E b \in BOOLEAN : SetSigningValidity(b)
    \/ \E s \in Slot : GenerateAttestation(s)
    \/ \E s \in Slot : PublicKey(s)
    \/ ReadCached

\* A call begins with all of its tasks, on a slot in use and for something it can get.
Begun(name, s, want, tasks) ==
    /\ Call(name, s, want, tasks)
    /\ Whole(name, tasks) /\ s \in KeyType
    /\ name \notin {"once", "get"} => s \in Slot
    /\ name \in {"import", "set"} => want \in Want
    /\ name = "once" => want \in BOOLEAN

\* Every call of a user begins with its list of tasks,
LEMMA CallsBegin ==
  ASSUME Calling
  PROVE  \E name, s, want, tasks : Begun(name, s, want, tasks)
<1>0. Slot \subseteq KeyType /\ Imported \subseteq Want /\ Simples \subseteq AlgoSimple
  BY KeysAssumption
<1>1. ASSUME NEW s \in Slot, NEW want \in Imported, ImportKey(s, want)
      PROVE  \E name, x, w, tasks : Begun(name, x, w, tasks)
  <2>1. Begun("import", s, want, (IF want.kind = "rsa" THEN <<"list", "ard", "choose">>
                                  ELSE <<"list", "choose">>) \o Store)
    BY <1>0, <1>1, CallsArePlanned DEF ImportKey, Begun
  <2>. QED
    BY <2>1
<1>2. ASSUME NEW s \in Slot, GenerateKey(s)
      PROVE  \E name, x, w, tasks : Begun(name, x, w, tasks)
  <2>1. Begun("generate", s, {}, <<"ard", "generate", "time", "fingerprint">>)
    BY <1>0, <1>2, CallsArePlanned DEF GenerateKey, Begun
  <2>. QED
    BY <2>1
<1>3. ASSUME NEW s \in Slot, NEW algo \in Simples, SetAlgorithm(s, algo)
      PROVE  \E name, x, w, tasks : Begun(name, x, w, tasks)
  <2>1. Begun("set", s, Simple(algo, s), <<"ard", "list", "choose", "attributes">>)
    BY <1>0, <1>3, CallsArePlanned, SimpleIsWanted DEF SetAlgorithm, Begun
  <2>. QED
    BY <2>1
<1>4. ASSUME NEW s \in Slot, NEW on \in BOOLEAN, SetTouchPolicy(s, on)
      PROVE  \E name, x, w, tasks : Begun(name, x, w, tasks)
  <2>1. Begun("touch", s, on, <<"cached", "touch">>)
    BY <1>0, <1>4, CallsArePlanned DEF SetTouchPolicy, Begun
  <2>. QED
    BY <2>1
<1>5. ASSUME NEW b \in BOOLEAN, SetSigningValidity(b)
      PROVE  \E name, x, w, tasks : Begun(name, x, w, tasks)
  <2>1. Begun("once", "Signing", b, <<"cached", "once">>)
    BY <1>5, CallsArePlanned DEF SetSigningValidity, Begun, KeyType
  <2>. QED
    BY <2>1
<1>6. ASSUME NEW s \in Slot, GenerateAttestation(s)
      PROVE  \E name, x, w, tasks : Begun(name, x, w, tasks)
  <2>1. Begun("attest", s, {}, <<"cached", "prompt", "attest">>)
    BY <1>0, <1>6, CallsArePlanned DEF GenerateAttestation, Begun
  <2>. QED
    BY <2>1
<1>7. ASSUME NEW s \in Slot, PublicKey(s)
      PROVE  \E name, x, w, tasks : Begun(name, x, w, tasks)
  <2>1. Begun("public", s, {}, <<"ard", "public">>)
    BY <1>0, <1>7, CallsArePlanned DEF PublicKey, Begun
  <2>. QED
    BY <2>1
<1>8. ASSUME ReadCached
      PROVE  \E name, x, w, tasks : Begun(name, x, w, tasks)
  <2>1. Begun("get", "Signing", {}, <<"cached">>)
    BY <1>8, CallsArePlanned DEF ReadCached, Begun, KeyType
  <2>. QED
    BY <2>1
<1>. QED
  BY <1>1, <1>2, <1>3, <1>4, <1>5, <1>6, <1>7, <1>8 DEF Calling

\* and to begin keeps the types.
LEMMA CallsKeepTypes ==
  ASSUME TypesInv, NEW name, NEW s, NEW want, NEW tasks, Begun(name, s, want, tasks)
  PROVE  TypesInv'
<1>1. DataOK'
  BY DEF TypesInv, DataOK, Begun, Call, cardVars, NoData
<1>2. FlowOK'
  <2>1. name \in Names /\ tasks \in Seq(Tasks) /\ tasks # <<>>
    BY DEF Begun, Whole, WellPlanned
  <2>2. described' \subseteq Slot /\ calls' \in 0..MaxCalls
    BY KeysAssumption DEF TypesInv, FlowOK, Begun, Call
  <2>. QED
    BY <2>1, <2>2 DEF FlowOK, Begun, Call
<1>3. PlanInv'
  <2>1. calls' # 0
    BY DEF TypesInv, FlowOK, Begun, Call
  <2>. QED
    BY <2>1 DEF PlanInv, Begun, Call, Whole
<1>. QED
  BY <1>1, <1>2, <1>3 DEF TypesInv, Begun, Call

\* Between the calls
Session == Open \/ Begin \/ End \/ InvalidateCache \/ \E s \in Slot : OtherTouch(s)

\* A session that opens or ends keeps the types.
LEMMA SessionKeepsTypes ==
  ASSUME TypesInv, Session
  PROVE  TypesInv'
<1> USE DEF TypesInv, DataOK, FlowOK, PlanInv
<1>1. CASE Open
  BY <1>1 DEF Open, cardVars, callVars, dataVars, histVars
<1>2. CASE Begin
  <2>1. FlowOK' /\ PlanInv'
    BY <1>2 DEF Begin, NoCall, cardVars, NoData, KeyType, Names
  <2>2. Ard \in [attrs : [Slot -> Attributes], touch : SUBSET Slot]
    BY DEF Ard
  <2>3. DataOK'
    BY <1>2, <2>2 DEF Begin, cardVars, NoData
  <2>. QED
    BY <1>2, <2>1, <2>3 DEF Begin
<1>3. CASE End
  BY <1>3 DEF End, cardVars, callVars, dataVars, histVars
<1>4. CASE InvalidateCache
  BY <1>4 DEF InvalidateCache, cardVars, callVars, dataVars
<1>5. ASSUME NEW s \in Slot, OtherTouch(s) PROVE TypesInv'
  BY <1>5 DEF OtherTouch, callVars, dataVars, histVars
<1>. QED
  BY <1>1, <1>2, <1>3, <1>4, <1>5 DEF Session

\* What all of the following is proved from
LEMMA TypesInvHolds == KeysSpec => []TypesInv
<1>1. KeysInit => TypesInv
  <2> SUFFICES ASSUME KeysInit PROVE TypesInv
    OBVIOUS
  <2>1. DataOK
    <3>1. attrs \in [Slot -> Attributes] /\ 0 \in Ids
      BY KeysAssumption DEF KeysInit, Ids
    <3>2. key \in [Slot -> Ids] /\ fp \in [Slot -> Ids] /\ time \in [Slot -> Ids]
      BY <3>1 DEF KeysInit
    <3>3. touch \subseteq Slot /\ (~traits.touch => touch = {})
      BY DEF KeysInit
    <3>. QED
      BY <3>1, <3>2, <3>3 DEF KeysInit, DataOK
  <2>2. FlowOK /\ PlanInv
    BY KeysAssumption DEF KeysInit, FlowOK, PlanInv, NoCall, Names, KeyType
  <2>. QED
    BY <2>1, <2>2 DEF KeysInit, TypesInv
<1>2. TypesInv /\ [KeysNext]_keysVars => TypesInv'
  <2> SUFFICES ASSUME TypesInv, [KeysNext]_keysVars PROVE TypesInv'
    OBVIOUS
  <2>1. CASE TaskStep
    BY <2>1, TasksKeepTypes, TasksGo, GoingOn DEF TypesInv, Goes
  <2>2. CASE Calling
    BY <2>2, CallsBegin, CallsKeepTypes
  <2>3. CASE Session
    BY <2>3, SessionKeepsTypes
  <2>4. CASE UNCHANGED keysVars
    BY <2>4 DEF keysVars, cardVars, callVars, dataVars, histVars, TypesInv, DataOK, FlowOK,
       PlanInv
  <2>. QED
    BY <2>1, <2>2, <2>3, <2>4 DEF KeysNext, TaskStep, Calling, Session
<1>. QED
  BY <1>1, <1>2, PTL DEF KeysSpec

\* The type invariant, for any number of calls
THEOREM KeysTypes == KeysSpec => []KeysTypeOK
BY TypesInvHolds, TypesInvTypes, PTL

-----------------------------------------------------------------------------
(* Keys and their descriptions.                                            *)

\* What the tasks that are done have done: the key, the fingerprint and the time are
\* those of this call.
Making ==
    op.name \in {"import", "generate"} =>
        /\ Pending("key") \/ Pending("generate") \/ key[op.slot] = calls
        /\ Pending("fingerprint") \/ fp[op.slot] = calls
        /\ Pending("time") \/ time[op.slot] = calls

\* The attributes that were read are those of the slot.
Reading ==
    /\ op.name \in {"generate", "public"} /\ ~Pending("ard") => read = {attrs[op.slot]}
    /\ op.name = "generate" /\ ~Pending("generate") => answer = {attrs[op.slot]}
    /\ op.name = "public" /\ ~Pending("public") => answer = {attrs[op.slot]}

KeyInv ==
    /\ pc = "busy" => /\ Making /\ Reading
                      /\ op.name \in {"import", "generate", "set"} => op.slot \notin described
    /\ SlotIsDescribed
    /\ PublicKeyIsDecoded

\* A task that goes on has not failed.
LEMMA NoFailure == ASSUME FlowOK, pc = "busy", Proceed PROVE ~Fail /\ ~Lose
BY DEF FlowOK, Proceed, Fail, Lose, Abort

\* A task that goes on keeps what has been done and adds what it does.
LEMMA TasksMake ==
  ASSUME TypesInv, KeyInv, TaskStep, Proceed
  PROVE  Making' /\ Reading'
<1>0. /\ pc = "busy" /\ UNCHANGED <<traits, op, calls>>
      /\ Making /\ Reading /\ DataOK /\ FlowOK /\ PlanInv
      /\ op.name \notin {"none", "once", "get"} => op.slot \in Slot
      /\ ~Fail /\ ~Lose
      /\ \A t : Pending(t) <=> Pending(t)' \/ t = Head(todo)
      /\ todo' = Tail(todo) /\ pc' # "panicked"
  BY TasksGo, NoFailure, ProceedStep DEF TypesInv, KeyInv, Goes, PlanInv
<1>1. CASE ReadArd
  <2>1. Head(todo) = "ard" /\ UNCHANGED <<cardVars, answer>> /\ read' = {attrs[op.slot]}
    BY <1>0, <1>1 DEF ReadArd, Task
  <2>. QED
    BY <1>0, <2>1 DEF Making, Reading, cardVars
<1>2. CASE Choose \/ ReadList \/ EnsureArd \/ KeepAttributes \/ NoTouch \/ Prompt \/ Attest
  <2>1. /\ Head(todo) \in {"choose", "list", "cached", "attributes", "touch", "prompt", "attest"}
        /\ UNCHANGED <<cardVars, answer, read>>
    BY <1>2 DEF Choose, ReadList, EnsureArd, KeepAttributes, NoTouch, Prompt, Attest, Task,
       dataVars
  <2>. QED
    BY <1>0, <2>1 DEF Making, Reading, cardVars
<1>3. CASE PutAttributes
  <2>1. Head(todo) = "attributes" /\ op.name \in {"import", "set"}
    BY <1>0, <1>3, HeadTask DEF PutAttributes, Send, Task
  <2>2. op.name = "import" => Pending("key")' /\ Pending("fingerprint")' /\ Pending("time")'
    BY <1>0, <2>1, DoneBefore DEF Pending
  <2>. QED
    BY <1>0, <2>1, <2>2 DEF Making, Reading
<1>4. CASE PutKey
  <2>1. /\ Head(todo) = "key" /\ op.name = "import" /\ UNCHANGED <<fp, time>>
        /\ key' = [key EXCEPT ![op.slot] = calls]
    BY <1>0, <1>4, HeadTask DEF PutKey, Send, Task, NewKey
  <2>. QED
    BY <1>0, <2>1 DEF Making, Reading, DataOK
<1>5. CASE Generate
  <2>1. /\ Head(todo) = "generate" /\ op.name = "generate" /\ UNCHANGED <<attrs, fp, time, read>>
        /\ key' = [key EXCEPT ![op.slot] = calls]
    BY <1>0, <1>5, HeadTask DEF Generate, Send, Task, NewKey
  <2>2. read = {attrs[op.slot]}
    BY <1>0, <2>1, DoneBefore DEF Reading
  <2>3. answer' = {attrs[op.slot]}
    BY <1>5, <2>2 DEF Generate, Decoded
  <2>. QED
    BY <1>0, <2>1, <2>2, <2>3 DEF Making, Reading, DataOK
<1>6. CASE PutFingerprint
  <2>1. /\ Head(todo) = "fingerprint" /\ op.name \in {"import", "generate"}
        /\ UNCHANGED <<attrs, key, time, read, answer>>
        /\ fp' = [fp EXCEPT ![op.slot] =
                    IF op.name = "generate" /\ answer # {attrs[op.slot]} THEN Wrong ELSE calls]
    BY <1>0, <1>6, HeadTask DEF PutFingerprint, Send, Task, Place
  <2>2. op.name = "generate" => answer = {attrs[op.slot]}
    BY <1>0, <2>1, DoneBefore DEF Reading
  <2>. QED
    BY <1>0, <2>1, <2>2 DEF Making, Reading, DataOK
<1>7. CASE PutTime
  <2>1. /\ Head(todo) = "time" /\ op.name \in {"import", "generate"}
        /\ UNCHANGED <<attrs, key, fp, read, answer>>
        /\ time' = [time EXCEPT ![op.slot] = calls]
    BY <1>0, <1>7, HeadTask DEF PutTime, Send, Task, Place
  <2>. QED
    BY <1>0, <2>1 DEF Making, Reading, DataOK
<1>8. CASE PutTouch \/ PutOnce
  <2>1. Head(todo) \in {"touch", "once"} /\ UNCHANGED <<attrs, key, fp, time, read, answer>>
    BY <1>0, <1>8 DEF PutTouch, PutOnce, Send, Task
  <2>. QED
    BY <1>0, <2>1 DEF Making, Reading
<1>9. CASE ReadPublic
  <2>1. /\ Head(todo) = "public" /\ op.name = "public" /\ UNCHANGED <<cardVars, read>>
        /\ answer' = Decoded
    BY <1>0, <1>9, HeadTask DEF ReadPublic, Task
  <2>2. read = {attrs[op.slot]}
    BY <1>0, <2>1, DoneBefore DEF Reading
  <2>3. answer' = {attrs[op.slot]}
    BY <2>1, <2>2 DEF Decoded
  <2>. QED
    BY <1>0, <2>1, <2>2, <2>3 DEF Making, Reading, cardVars
<1>. QED
  BY <1>1, <1>2, <1>3, <1>4, <1>5, <1>6, <1>7, <1>8, <1>9 DEF TaskStep

\* A task changes the slot of its call and no other.
LEMMA OtherSlotsKept ==
  ASSUME TypesInv, TaskStep, NEW s \in Slot,
         s = op.slot => op.name \notin {"import", "generate", "set"}
  PROVE  key'[s] = key[s] /\ fp'[s] = fp[s] /\ time'[s] = time[s]
<1>0. pc = "busy" /\ DataOK /\ FlowOK /\ PlanInv
  BY TasksGo DEF TypesInv, Goes
<1>1. CASE UNCHANGED <<key, fp, time>>
  BY <1>1
<1>2. CASE PutAttributes
  <2>1. s # op.slot
    BY <1>0, <1>2, HeadTask DEF PutAttributes, Send, Task
  <2>. QED
    BY <1>0, <1>2, <2>1 DEF PutAttributes, Send, cardVars, DataOK
<1>3. CASE PutKey \/ Generate \/ PutFingerprint \/ PutTime
  <2>1. s # op.slot
    BY <1>0, <1>3, HeadTask DEF PutKey, Generate, PutFingerprint, PutTime, Send, Task
  <2>2. CASE PutKey
    BY <1>0, <2>1, <2>2 DEF PutKey, Send, NewKey, cardVars, DataOK
  <2>3. CASE Generate
    BY <1>0, <2>1, <2>3 DEF Generate, Send, NewKey, cardVars, DataOK
  <2>4. CASE PutFingerprint
    BY <1>0, <2>1, <2>4 DEF PutFingerprint, Send, Place, cardVars, DataOK
  <2>5. CASE PutTime
    BY <1>0, <2>1, <2>5 DEF PutTime, Send, Place, cardVars, DataOK
  <2>. QED
    BY <1>3, <2>2, <2>3, <2>4, <2>5
<1>. QED
  BY <1>1, <1>2, <1>3 DEF TaskStep, ReadArd, EnsureArd, ReadList, Choose, KeepAttributes,
     PutTouch, NoTouch, PutOnce, Prompt, Attest, ReadPublic, Send, cardVars

\* Every task keeps what is known of the keys in the card's slots.
LEMMA TasksKeepKeys ==
  ASSUME TypesInv, KeyInv, TaskStep
  PROVE  KeyInv'
<1>0. /\ Goes /\ pc = "busy" /\ FlowOK /\ PlanInv /\ SlotIsDescribed
      /\ op.name \in {"import", "generate", "set"} => op.slot \notin described
  BY TasksGo DEF TypesInv, KeyInv, Goes
<1>1. \A s \in described :
        /\ key'[s] = key[s] /\ fp'[s] = fp[s] /\ time'[s] = time[s]
        /\ key[s] # 0 /\ fp[s] = key[s] /\ time[s] = key[s]
  BY <1>0, OtherSlotsKept DEF FlowOK, SlotIsDescribed
<1>2. CASE Proceed
  <2>1. /\ Making' /\ Reading' /\ op' = op /\ calls' = calls
        /\ pc' = (IF todo' = <<>> THEN "idle" ELSE "busy")
    BY <1>0, <1>2, TasksMake, ProceedStep DEF Goes
  <2>2. CASE todo' = <<>>
    <3>1. \A t : ~Pending(t)'
      BY <2>2 DEF Pending, Has
    <3>2. described' = IF op.name \in {"import", "generate"} THEN described \cup {op.slot}
                       ELSE described
      BY <1>0, <1>2, <2>2 DEF Proceed
    <3>3. op.name \in {"import", "generate"} =>
            /\ key'[op.slot] = calls /\ fp'[op.slot] = calls /\ time'[op.slot] = calls
            /\ calls # 0
      BY <1>0, <2>1, <3>1 DEF Making, PlanInv
    <3>4. SlotIsDescribed'
      BY <1>1, <3>2, <3>3 DEF SlotIsDescribed
    <3>5. PublicKeyIsDecoded'
      BY <2>1, <3>1 DEF Reading, PublicKeyIsDecoded
    <3>. QED
      BY <2>1, <2>2, <3>4, <3>5 DEF KeyInv
  <2>3. CASE todo' # <<>>
    <3>1. described' = described
      BY <1>0, <1>2, <2>3 DEF Proceed
    <3>2. SlotIsDescribed' /\ PublicKeyIsDecoded'
      BY <1>1, <2>1, <2>3, <3>1 DEF SlotIsDescribed, PublicKeyIsDecoded
    <3>. QED
      BY <1>0, <2>1, <3>1, <3>2 DEF KeyInv
  <2>. QED
    BY <2>2, <2>3
<1>3. CASE ~Proceed
  <2>1. described' = described /\ pc' # "busy" /\ (pc' = "idle" => result' = "error")
    BY <1>0, <1>3 DEF Goes
  <2>2. SlotIsDescribed' /\ PublicKeyIsDecoded'
    BY <1>1, <2>1 DEF SlotIsDescribed, PublicKeyIsDecoded
  <2>. QED
    BY <2>1, <2>2 DEF KeyInv
<1>. QED
  BY <1>2, <1>3

\* What is known of the keys in the slots is true in every state.
LEMMA KeyInvHolds == KeysSpec => []KeyInv
<1>1. KeysInit => KeyInv
  BY DEF KeysInit, KeyInv, SlotIsDescribed, PublicKeyIsDecoded
<1>2. TypesInv /\ KeyInv /\ [KeysNext]_keysVars => KeyInv'
  <2> SUFFICES ASSUME TypesInv, KeyInv, [KeysNext]_keysVars PROVE KeyInv'
    OBVIOUS
  <2>1. CASE TaskStep
    BY <2>1, TasksKeepKeys
  <2>2. CASE Calling
    <3>1. PICK name, s, want, tasks : Begun(name, s, want, tasks)
      BY <2>2, CallsBegin
    <3>2. /\ pc' = "busy" /\ todo' = tasks /\ UNCHANGED cardVars /\ Whole(name, tasks)
          /\ op'.name = name /\ op'.slot = s
          /\ described' = (IF name \in {"import", "generate", "set"} THEN described \ {s}
                           ELSE described)
      BY <3>1 DEF Begun, Call
    <3>3. Making' /\ Reading'
      BY <3>2 DEF Making, Reading, Pending, Whole
    <3>4. SlotIsDescribed'
      BY <3>2 DEF KeyInv, SlotIsDescribed, cardVars
    <3>. QED
      BY <3>2, <3>3, <3>4 DEF KeyInv, PublicKeyIsDecoded
  <2>3. CASE Session
    <3>1. /\ pc # "busy" /\ pc' # "busy" /\ UNCHANGED <<attrs, key, fp, time, described>>
          /\ pc' = "idle" => op' = NoCall \/ UNCHANGED <<pc, op, result, answer>>
      BY <2>3 DEF Session, Open, Begin, End, InvalidateCache, OtherTouch, cardVars, callVars,
         dataVars, histVars
    <3>. QED
      BY <3>1 DEF KeyInv, SlotIsDescribed, PublicKeyIsDecoded, NoCall
  <2>4. CASE UNCHANGED keysVars
    BY <2>4 DEF keysVars, cardVars, callVars, dataVars, histVars, KeyInv, SlotIsDescribed,
       PublicKeyIsDecoded, Making, Reading, Pending
  <2>. QED
    BY <2>1, <2>2, <2>3, <2>4 DEF KeysNext, TaskStep, Calling, Session
<1>. QED
  BY <1>1, <1>2, TypesInvHolds, PTL DEF KeysSpec

\* A slot that an import or a generation has reported as described has the fingerprint
\* and the creation time of its key, whatever fails or is lost in other calls: for any
\* slots, any kind of card and any number of calls.
THEOREM DescribedSlots == KeysSpec => []SlotIsDescribed
BY KeyInvHolds, PTL DEF KeyInv

\* A public key that a call returns was read with the attributes of its slot.
THEOREM DecodedKeys == KeysSpec => []PublicKeyIsDecoded
BY KeyInvHolds, PTL DEF KeyInv

\* No step writes a fingerprint but that of the key that the slot holds.
THEOREM FingerprintsFollow == KeysSpec => FingerprintFollowsKey
<1>1. TypesInv /\ KeyInv /\ [KeysNext]_keysVars
        => [\A s \in Slot : fp'[s] # fp[s] => fp'[s] \in {0, key[s]}]_keysVars
  <2> SUFFICES ASSUME TypesInv, KeyInv, KeysNext
               PROVE  \A s \in Slot : fp'[s] # fp[s] => fp'[s] \in {0, key[s]}
    OBVIOUS
  <2>1. CASE PutAttributes
    BY <2>1 DEF PutAttributes, Send, cardVars, TypesInv, DataOK
  <2>2. CASE PutFingerprint
    <3>1. /\ pc = "busy" /\ Head(todo) = "fingerprint" /\ Making /\ Reading
          /\ DataOK /\ FlowOK /\ PlanInv
      BY <2>2 DEF PutFingerprint, Send, Task, KeyInv, TypesInv
    <3>2. /\ op.name \in {"import", "generate"} /\ op.slot \in Slot
          /\ ~Pending("key") /\ ~Pending("generate")
      BY <3>1, HeadTask, DoneBefore DEF PlanInv
    <3>3. key[op.slot] = calls /\ (op.name = "generate" => answer = {attrs[op.slot]})
      BY <3>1, <3>2 DEF Making, Reading
    <3>. QED
      BY <2>2, <3>1, <3>2, <3>3 DEF PutFingerprint, Send, Place, cardVars, DataOK
  <2>3. CASE ~PutAttributes /\ ~PutFingerprint
    <3>1. UNCHANGED fp
      BY <2>3 DEF KeysNext, Open, Begin, End, InvalidateCache, OtherTouch, ImportKey, GenerateKey,
         SetAlgorithm, SetTouchPolicy, SetSigningValidity, GenerateAttestation, PublicKey,
         ReadCached, Call, ReadArd, EnsureArd, ReadList, Choose, KeepAttributes, PutKey, Generate,
         PutTime, PutTouch, NoTouch, PutOnce, Prompt, Attest, ReadPublic, Send, NewKey, cardVars
    <3>. QED
      BY <3>1
  <2>. QED
    BY <2>1, <2>2, <2>3
<1>. QED
  BY <1>1, TypesInvHolds, KeyInvHolds, PTL DEF FingerprintFollowsKey, KeysSpec

-----------------------------------------------------------------------------
(* The cached data.                                                        *)

\* In a transaction the cached touch policies are those of the card, unless one was
\* set since; an attestation has prompted if its key wants a touch.
CacheInv ==
    /\ pc \in {"idle", "busy"} /\ ~stale => ard = Uncached \/ ard.touch = touch
    /\ pc = "busy" /\ op.name = "attest" =>
        /\ Pending("cached") \/ stale \/ ard.touch = touch
        /\ Pending("prompt") \/ stale \/ prompted \/ "Attestation" \notin touch
    /\ pc \in {"idle", "busy"} /\ ard = Uncached => invalidated
    /\ TouchIsAnnounced
    /\ OnlyInvalidationPanics

\* Data that are read are data.
LEMMA ArdIsCached ==
  ASSUME TypesInv
  PROVE  Ard # Uncached /\ Ard.touch = touch
BY KeysAssumption DEF TypesInv, DataOK, Ard

\* Every task keeps what is known of the cached data.
LEMMA TasksKeepCache ==
  ASSUME TypesInv, CacheInv, TaskStep
  PROVE  CacheInv'
<1>0. /\ Goes /\ pc = "busy" /\ FlowOK /\ PlanInv /\ UNCHANGED op
      /\ pc' \in {"idle", "busy", "closed", "panicked"}
  BY TasksGo DEF TypesInv, Goes, Proceed
<1>1. CASE EnsureArd
  <2>1. /\ Head(todo) = "cached" /\ UNCHANGED <<touch, prompted>>
    BY <1>1 DEF EnsureArd, Task, cardVars, dataVars
  <2>2. CASE Proceed
    <3>1. /\ op.name = "attest" => Pending("prompt")'
          /\ pc' = (IF todo' = <<>> THEN "idle" ELSE "busy")
      BY <1>0, <2>1, <2>2, DoneBefore, ProceedStep DEF Pending
    <3>2. op.name = "attest" => pc' = "busy"
      BY <3>1 DEF Pending, Has
    <3>3. \/ ard # Uncached /\ UNCHANGED <<ard, stale, invalidated>>
          \/ ard' = Ard /\ stale' = FALSE /\ invalidated' = FALSE
      BY <1>1, <3>1 DEF EnsureArd
    <3>4. ard' # Uncached /\ (stale' \/ ard'.touch = touch)
      BY <1>0, <3>3, ArdIsCached DEF CacheInv
    <3>. QED
      BY <1>0, <2>1, <3>1, <3>2, <3>4 DEF CacheInv, TouchIsAnnounced, OnlyInvalidationPanics
  <2>3. CASE ~Proceed
    <3>1. pc' = "panicked" /\ ard = Uncached /\ UNCHANGED invalidated
      BY SMTT(60), <1>1, <2>3 DEF EnsureArd
    <3>. QED
      BY <1>0, <3>1 DEF CacheInv, TouchIsAnnounced, OnlyInvalidationPanics
  <2>. QED
    BY <2>2, <2>3
<1>2. CASE ~EnsureArd
  <2>1. UNCHANGED <<ard, invalidated>> /\ pc' # "panicked"
    BY <1>0, <1>2 DEF TaskStep, ReadArd, ReadList, Choose, PutAttributes, KeepAttributes,
       PutKey, Generate, PutFingerprint, PutTime, PutTouch, NoTouch, PutOnce, Prompt, Attest,
       ReadPublic, Send, Proceed, Fail, Lose, Abort
  <2>3. /\ stale => stale'
        /\ op.name = "attest" => UNCHANGED touch
        /\ UNCHANGED touch \/ stale'
    <3>1. CASE PutTouch
      <4>1. op.name = "touch" /\ stale' = (stale \/ touch' # touch)
        BY <1>0, <3>1, HeadTask DEF PutTouch, Send, Task
      <4>. QED
        BY <4>1
    <3>2. CASE ~PutTouch
      <4>1. UNCHANGED <<touch, stale>>
        BY <1>2, <3>2 DEF TaskStep, ReadArd, ReadList, Choose, PutAttributes, KeepAttributes,
           PutKey, Generate, PutFingerprint, PutTime, NoTouch, PutOnce, Prompt, Attest,
           ReadPublic, Send, NewKey, cardVars
      <4>. QED
        BY <4>1
    <3>. QED
      BY <3>1, <3>2
  <2>4. /\ pc' \in {"idle", "busy"} /\ ~stale' => ard' = Uncached \/ ard'.touch = touch'
        /\ pc' \in {"idle", "busy"} /\ ard' = Uncached => invalidated'
        /\ OnlyInvalidationPanics'
    BY <1>0, <2>1, <2>3 DEF CacheInv, OnlyInvalidationPanics
  <2>5. ASSUME op.name = "attest", Proceed
        PROVE  /\ Pending("cached")' \/ stale' \/ ard'.touch = touch'
               /\ Pending("prompt")' \/ stale' \/ prompted' \/ "Attestation" \notin touch'
    <3>1. \A t : Pending(t) <=> Pending(t)' \/ t = Head(todo)
      BY <1>0, <2>5, ProceedStep
    <3>2. CASE Prompt
      <4>1. Head(todo) = "prompt" /\ prompted' = ("Attestation" \in ard.touch)
        BY <3>2 DEF Prompt, Task
      <4>2. stale \/ ard.touch = touch
        BY <1>0, <2>5, <4>1, DoneBefore DEF CacheInv
      <4>. QED
        BY <2>1, <2>3, <2>5, <4>1, <4>2
    <3>3. CASE Attest
      <4>1. Head(todo) = "attest" /\ UNCHANGED prompted
        BY <3>3 DEF Attest, Task, dataVars
      <4>. QED
        BY <1>0, <2>1, <2>3, <2>5, <3>1, <4>1 DEF CacheInv
    <3>4. Head(todo) \in {"cached", "prompt", "attest"}
      BY <1>0, <2>5, HeadTask
    <3>5. Prompt \/ Attest
      BY <1>2, <3>4 DEF TaskStep, ReadArd, ReadList, Choose, PutAttributes, KeepAttributes, PutKey,
         Generate, PutFingerprint, PutTime, PutTouch, NoTouch, PutOnce, ReadPublic, Send, Task
    <3>. QED
      BY <3>2, <3>3, <3>5
  <2>6. CASE Proceed
    <3>1. /\ pc' = (IF todo' = <<>> THEN "idle" ELSE "busy")
          /\ todo' = <<>> => ~Pending("prompt")'
      BY <1>0, <2>6, ProceedStep DEF Pending, Has
    <3>2. TouchIsAnnounced'
      BY <1>0, <2>5, <2>6, <3>1 DEF TouchIsAnnounced
    <3>. QED
      BY <1>0, <2>4, <2>5, <2>6, <3>2 DEF CacheInv
  <2>7. CASE ~Proceed
    <3>1. pc' # "busy" /\ (pc' = "idle" => result' = "error")
      BY <1>0, <2>7 DEF Goes
    <3>. QED
      BY <2>4, <3>1 DEF CacheInv, TouchIsAnnounced
  <2>. QED
    BY <2>6, <2>7
<1>. QED
  BY <1>1, <1>2

\* What is known of the cached data is true in every state.
LEMMA CacheInvHolds == KeysSpec => []CacheInv
<1>1. KeysInit => CacheInv
  BY DEF KeysInit, CacheInv, TouchIsAnnounced, OnlyInvalidationPanics
<1>2. TypesInv /\ CacheInv /\ [KeysNext]_keysVars => CacheInv'
  <2> SUFFICES ASSUME TypesInv, CacheInv, [KeysNext]_keysVars PROVE CacheInv'
    OBVIOUS
  <2>1. CASE TaskStep
    BY <2>1, TasksKeepCache
  <2>2. CASE Calling
    <3>1. PICK name, s, want, tasks : Begun(name, s, want, tasks)
      BY <2>2, CallsBegin
    <3>2. /\ pc = "idle" /\ pc' = "busy" /\ todo' = tasks /\ Whole(name, tasks)
          /\ op'.name = name /\ UNCHANGED <<touch, ard, stale, invalidated>>
      BY <3>1 DEF Begun, Call, cardVars
    <3>3. op'.name = "attest" => Pending("cached")' /\ Pending("prompt")'
      BY <3>2 DEF Pending, Whole
    <3>. QED
      BY <3>2, <3>3 DEF CacheInv, TouchIsAnnounced, OnlyInvalidationPanics
  <2>3. CASE Session
    <3>1. CASE Open \/ End \/ \E s \in Slot : OtherTouch(s)
      BY <3>1 DEF Open, End, OtherTouch, CacheInv, TouchIsAnnounced, OnlyInvalidationPanics
    <3>2. CASE Begin
      <4>1. /\ pc' = "idle" /\ ard' = Ard /\ UNCHANGED touch /\ op'.name = "none"
        BY <3>2 DEF Begin, NoCall, cardVars
      <4>. QED
        BY <4>1, ArdIsCached DEF CacheInv, TouchIsAnnounced, OnlyInvalidationPanics
    <3>3. CASE InvalidateCache
      BY <3>3 DEF InvalidateCache, cardVars, callVars, dataVars, CacheInv, TouchIsAnnounced,
         OnlyInvalidationPanics
    <3>. QED
      BY <2>3, <3>1, <3>2, <3>3 DEF Session
  <2>4. CASE UNCHANGED keysVars
    BY <2>4 DEF keysVars, cardVars, callVars, dataVars, histVars, CacheInv, TouchIsAnnounced,
       OnlyInvalidationPanics, Pending
  <2>. QED
    BY <2>1, <2>2, <2>3, <2>4 DEF KeysNext, TaskStep, Calling, Session
<1>. QED
  BY <1>1, <1>2, TypesInvHolds, PTL DEF KeysSpec

\* An attestation that waited for a touch has announced it, unless the cached policies
\* were older than one that was set in the same transaction.
THEOREM TouchesAnnounced == KeysSpec => []TouchIsAnnounced
BY CacheInvHolds, PTL DEF CacheInv

\* The data of a transaction are missing only where invalidate_cache has emptied them.
THEOREM PanicsInvalidated == KeysSpec => []OnlyInvalidationPanics
BY CacheInvHolds, PTL DEF CacheInv

-----------------------------------------------------------------------------
(* The attributes that are chosen.                                         *)

\* Attributes a are what list l says of the slot.
Stands(a, l, want) ==
    \E i \in DOMAIN l :
        /\ a.kind = "rsa" => IsLast(i, ListedFor(l, want)) /\ l[i].attributes = a
        /\ a.kind = "ecc" => IsFirst(i, ListedFor(l, want))
                          /\ l[i].attributes.format = a.format

\* Whatever a card has in its list, if there is one, and whatever its attributes are
LEMMA DetermineFits ==
  ASSUME NEW want \in Want, NEW current, NEW lists,
         \A l, m \in lists : l = m,
         NEW a \in Determine(want, op.slot, current, lists)
  PROVE  Fits(want, a) /\ \A l \in lists : Stands(a, l, want)
<1>1. CASE want.kind = "rsa"
  <2>1. a \in DetermineRsa(want.bits, op.slot, current, lists)
    BY <1>1 DEF Determine
  <2>2. CASE lists = {}
    BY <1>1, <2>1, <2>2 DEF DetermineRsa, Rsa, Fits
  <2>3. CASE lists # {}
    <3>1. PICK l \in lists : a \in CardAlgoRsa(l, op.slot, want.bits)
      BY <2>1, <2>3 DEF DetermineRsa
    <3> DEFINE found == {i \in ForKeyType(l, op.slot) :
                            l[i].attributes.kind = "rsa" /\ l[i].attributes.n = want.bits}
    <3>2. found = ListedFor(l, want)
      BY <1>1 DEF ForKeyType, ListedFor
    <3>3. PICK i \in found : l[i].attributes = a /\ \A k \in found : k <= i
      BY <3>1 DEF CardAlgoRsa
    <3>4. IsLast(i, ListedFor(l, want)) /\ i \in DOMAIN l
      BY <3>2, <3>3 DEF IsLast, ListedFor
    <3>5. a.kind = "rsa" /\ a.n = want.bits
      BY <3>3
    <3>. QED
      BY <1>1, <3>3, <3>4, <3>5 DEF Fits, Stands
  <2>. QED
    BY <2>2, <2>3
<1>2. CASE want.kind # "rsa"
  <2>1. a \in DetermineEcc(want.type, want.curve, op.slot, lists) /\ want.kind = "ecc"
    BY <1>2 DEF Determine, Want
  <2>2. CASE lists = {}
    BY <2>1, <2>2 DEF DetermineEcc, Ecc, Fits
  <2>3. CASE lists # {}
    <3>1. PICK l \in lists : a \in {Ecc(want.type, want.curve, b.format) :
                                        b \in CardAlgoEcc(l, op.slot, want.curve)}
      BY <2>1, <2>3 DEF DetermineEcc
    <3>2. PICK b \in CardAlgoEcc(l, op.slot, want.curve) : a = Ecc(want.type, want.curve, b.format)
      BY <3>1
    <3> DEFINE found == {i \in ForKeyType(l, op.slot) :
                            l[i].attributes.kind = "ecc" /\ l[i].attributes.curve = want.curve}
    <3>3. found = ListedFor(l, want)
      BY <2>1 DEF ForKeyType, ListedFor
    <3>4. PICK i \in found : l[i].attributes = b /\ \A k \in found : i <= k
      BY <3>2 DEF CardAlgoEcc
    <3>5. IsFirst(i, ListedFor(l, want)) /\ i \in DOMAIN l
      BY <3>3, <3>4 DEF IsFirst, ListedFor
    <3>6. /\ a.kind = "ecc" /\ a.type = want.type /\ a.curve = want.curve
          /\ a.format = l[i].attributes.format
      BY <3>2, <3>4 DEF Ecc
    <3>. QED
      BY <2>1, <3>5, <3>6 DEF Fits, Stands
  <2>. QED
    BY <2>2, <2>3
<1>. QED
  BY <1>1, <1>2

\* Without a list, there is one choice, which keeps the form of the attributes there are.
LEMMA DetermineKeeps ==
  ASSUME NEW want \in Want, NEW current,
         NEW a \in Determine(want, op.slot, current, {})
  PROVE  /\ \A b \in Determine(want, op.slot, current, {}) : a = b
         /\ want.kind # "rsa" => a = Ecc(want.type, want.curve, {})
         /\ want.kind = "rsa" /\ current.kind = "rsa" =>
                a.format = current.format /\ a.e = current.e
<1>1. CASE want.kind = "rsa"
  BY <1>1 DEF Determine, DetermineRsa, Rsa
<1>2. CASE want.kind # "rsa"
  BY <1>2 DEF Determine, DetermineEcc
<1>. QED
  BY <1>1, <1>2

\* The slot has RSA attributes of the form of a.
Keeps(a) ==
    a.kind = "rsa" /\ attrs[op.slot].kind = "rsa" =>
        /\ attrs[op.slot].format = a.format
        /\ attrs[op.slot].e \in {a.e, a.e % 256}

\* A call chooses once, when it has its list and, if it needs them, the attributes that
\* the slot has until then; without a list there is one choice.
ChoiceInv ==
    /\ pc = "busy" /\ chosen # {} => ~Pending("list") /\ ~Pending("choose")
    /\ chosen = {} => read \subseteq {attrs[op.slot]}
    /\ list = {} => \A a, b \in chosen : a = b
    /\ ChosenAttributesFit

\* The property, in these words
LEMMA ChoiceFits ==
  ChosenAttributesFit <=>
    \A a \in chosen : /\ Fits(op.want, a)
                      /\ \A l \in list : Stands(a, l, op.want)
                      /\ list = {} => Keeps(a)
BY DEF ChosenAttributesFit, Stands, Keeps

\* Choosing attributes,
LEMMA ChooseKeepsChoice ==
  ASSUME TypesInv, ChoiceInv, Choose
  PROVE  ChoiceInv'
<1>0. /\ Goes /\ pc = "busy" /\ FlowOK /\ PlanInv /\ DataOK /\ UNCHANGED op
      /\ Proceed => todo' = Tail(todo)
      /\ ~Proceed => pc' # "busy"
  BY TasksGo, ProceedStep DEF TypesInv, Goes, TaskStep
<1>1. /\ Head(todo) = "choose" /\ UNCHANGED <<list, read, attrs>>
      /\ chosen' = UNION {Determine(op.want, op.slot, current, list) :
                          current \in IF op.want.kind = "rsa" THEN read ELSE {op.want}}
  BY DEF Choose, Task, cardVars
<1>2. op.want \in Want /\ ~Pending("list") /\ ~Has(Tail(todo), "choose")
  BY <1>0, <1>1, HeadTask, DoneBefore DEF PlanInv
<1>3. \A l, m \in list : l = m
  BY KeysAssumption DEF TypesInv, DataOK, IsCard
<1>4. chosen = {}
  <2>1. Pending("choose")
    BY <1>0, <1>1 DEF FlowOK, Pending, Has
  <2>. QED
    BY <1>0, <2>1 DEF ChoiceInv
<1>5. read \subseteq {attrs[op.slot]}
  BY <1>4 DEF ChoiceInv
<1>6. ASSUME NEW a \in chosen'
      PROVE  Fits(op.want, a) /\ \A l \in list : Stands(a, l, op.want)
  <2>1. PICK current : a \in Determine(op.want, op.slot, current, list)
    BY <1>1
  <2>. QED
    BY <1>2, <1>3, <2>1, DetermineFits
<1>7. ASSUME list = {}, NEW a \in chosen'
      PROVE  Keeps(a) /\ \A b \in chosen' : a = b
  <2>1. PICK current : /\ a \in Determine(op.want, op.slot, current, {})
                       /\ op.want.kind = "rsa" => current = attrs[op.slot]
    BY <1>1, <1>5, <1>7
  <2>2. op.want.kind = "rsa" => Keeps(a)
    BY <1>2, <2>1, DetermineKeeps DEF Keeps
  <2>3. op.want.kind # "rsa" => Keeps(a)
    <3>1. op.want.kind # "rsa" => a = Ecc(op.want.type, op.want.curve, {})
      BY <1>2, <2>1, DetermineKeeps
    <3>. QED
      BY <3>1 DEF Keeps, Ecc
  <2>4. ASSUME NEW b \in chosen' PROVE a = b
    <3>1. PICK other : /\ b \in Determine(op.want, op.slot, other, {})
                       /\ op.want.kind = "rsa" => other = attrs[op.slot]
      BY <1>1, <1>5, <1>7
    <3>2. CASE op.want.kind = "rsa"
      BY <1>2, <2>1, <3>1, <3>2, DetermineKeeps
    <3>3. CASE op.want.kind # "rsa"
      <4>1. a = Ecc(op.want.type, op.want.curve, {})
        BY <1>2, <2>1, <3>3, DetermineKeeps
      <4>2. b = Ecc(op.want.type, op.want.curve, {})
        BY <1>2, <3>1, <3>3, DetermineKeeps
      <4>. QED
        BY <4>1, <4>2
    <3>. QED
      BY <3>2, <3>3
  <2>. QED
    BY <2>2, <2>3, <2>4
<1>8. ChosenAttributesFit'
  <2>1. \A a \in chosen' : /\ Fits(op.want, a)
                           /\ \A l \in list : Stands(a, l, op.want)
                           /\ list = {} => Keeps(a)
    BY <1>6, <1>7
  <2>2. UNCHANGED <<op, list, attrs>>
    BY <1>0, <1>1
  <2>3. \A a \in chosen' : /\ Fits(op.want, a)
                           /\ \A l \in list : Stands(a, l, op.want)
                           /\ list = {} => Keeps(a)'
    BY <2>1, <2>2 DEF Keeps
  <2>. QED
    BY <2>2, <2>3 DEF ChosenAttributesFit, Stands, Keeps, ListedFor
<1>9. pc' = "busy" => ~Pending("list")' /\ ~Pending("choose")'
  <2>1. Proceed => \A t : Pending(t)' => Pending(t)
    BY <1>0, ProceedStep
  <2>. QED
    BY <1>0, <1>2, <2>1 DEF Pending
<1>10. chosen' = {} => (read \subseteq {attrs[op.slot]})'
  BY <1>0, <1>1, <1>5
<1>11. (list = {} => \A a, b \in chosen : a = b)'
  BY <1>1, <1>7
<1>. QED
  BY <1>8, <1>9, <1>10, <1>11 DEF ChoiceInv

\* setting them,
LEMMA PutKeepsForm ==
  ASSUME TypesInv, ChoiceInv, PutAttributes
  PROVE  /\ list = {} => \A a \in chosen : Keeps(a) => Keeps(a)'
         /\ chosen = {} => UNCHANGED attrs
<1>1. DataOK /\ UNCHANGED op
  BY DEF TypesInv, PutAttributes, Send
<1>2. op.slot \in Slot
  <2>1. Head(todo) = "attributes" /\ pc = "busy" /\ FlowOK /\ PlanInv
    BY DEF PutAttributes, Send, Task, TypesInv
  <2>. QED
    BY <2>1, HeadTask DEF PlanInv
<1>3. chosen = {} => UNCHANGED attrs
  BY DEF PutAttributes, Send, cardVars
<1>4. ASSUME list = {}, NEW a \in chosen, Keeps(a) PROVE Keeps(a)'
  <2>1. CASE UNCHANGED attrs
    BY <1>1, <1>4, <2>1 DEF Keeps
  <2>2. CASE \E b \in chosen : attrs' = [attrs EXCEPT ![op.slot] = Stored(b)]
    <3>1. PICK b \in chosen : attrs' = [attrs EXCEPT ![op.slot] = Stored(b)]
      BY <2>2
    <3>2. a = b
      BY <1>4 DEF ChoiceInv
    <3>3. attrs'[op.slot] = Stored(a)
      BY <1>1, <1>2, <3>1, <3>2 DEF DataOK
    <3>4. a \in Known
      BY <1>1 DEF DataOK
    <3>5. CASE a.kind = "ecc"
      BY <1>1, <3>5 DEF Keeps
    <3>6. CASE a.kind # "ecc"
      BY <1>1, <3>3, <3>6 DEF Keeps, Stored, Rsa
    <3>. QED
      BY <3>5, <3>6
  <2>. QED
    BY <2>1, <2>2 DEF PutAttributes, Send, cardVars
<1>. QED
  BY <1>3, <1>4

\* and every other task keep what is known of the chosen attributes.
LEMMA TasksKeepChoice ==
  ASSUME TypesInv, ChoiceInv, TaskStep
  PROVE  ChoiceInv'
<1>0. /\ Goes /\ pc = "busy" /\ FlowOK /\ PlanInv /\ DataOK /\ UNCHANGED op
      /\ Proceed => \A t : Pending(t)' => Pending(t)
      /\ ~Proceed => pc' # "busy"
  BY TasksGo, ProceedStep DEF TypesInv, Goes
<1>1. CASE Choose
  BY <1>1, ChooseKeepsChoice
<1>2. CASE ~Choose
  <2>1. UNCHANGED chosen
    BY <1>2 DEF TaskStep, ReadArd, EnsureArd, ReadList, PutAttributes, KeepAttributes, PutKey,
       Generate, PutFingerprint, PutTime, PutTouch, NoTouch, PutOnce, Prompt, Attest,
       ReadPublic, Send, dataVars
  <2>2. UNCHANGED list \/ Head(todo) = "list"
    BY <1>2 DEF TaskStep, ReadArd, EnsureArd, ReadList, PutAttributes, KeepAttributes, PutKey,
       Generate, PutFingerprint, PutTime, PutTouch, NoTouch, PutOnce, Prompt, Attest,
       ReadPublic, Send, dataVars, Task
  <2>3. Head(todo) = "list" => Pending("list")
    BY <1>0 DEF FlowOK, Pending, Has
  <2>4. UNCHANGED list \/ chosen = {}
    BY <1>0, <2>2, <2>3 DEF ChoiceInv
  <2>5. UNCHANGED attrs \/ PutAttributes
    BY <1>2 DEF TaskStep, ReadArd, EnsureArd, ReadList, KeepAttributes, PutKey, NewKey,
       Generate, PutFingerprint, PutTime, PutTouch, NoTouch, PutOnce, Prompt, Attest,
       ReadPublic, Send, cardVars
  <2>6. read' \in {read, {attrs[op.slot]}} /\ (PutAttributes => UNCHANGED <<read, list>>)
    BY <1>2 DEF TaskStep, ReadArd, EnsureArd, ReadList, PutAttributes, KeepAttributes, PutKey,
       Generate, PutFingerprint, PutTime, PutTouch, NoTouch, PutOnce, Prompt, Attest,
       ReadPublic, Send, dataVars
  <2>7. chosen = {} => UNCHANGED attrs
    BY <2>5, PutKeepsForm
  <2>8. ASSUME list = {}, NEW a \in chosen, Keeps(a) PROVE Keeps(a)'
    <3>1. CASE UNCHANGED attrs
      BY <1>0, <2>8, <3>1 DEF Keeps
    <3>2. CASE PutAttributes
      BY <2>8, <3>2, PutKeepsForm
    <3>. QED
      BY <2>5, <3>1, <3>2
  <2>9. ChosenAttributesFit'
    <3>1. CASE chosen = {}
      BY <2>1, <3>1 DEF ChosenAttributesFit
    <3>2. CASE chosen # {}
      <4>1. \A a \in chosen : /\ Fits(op.want, a)
                              /\ \A l \in list : Stands(a, l, op.want)
                              /\ list = {} => Keeps(a)'
        BY <2>8, ChoiceFits DEF ChoiceInv
      <4>2. UNCHANGED <<op, list, chosen>>
        BY <1>0, <2>1, <2>4, <3>2
      <4>. QED
        BY <4>1, <4>2 DEF ChosenAttributesFit, Stands, Keeps, ListedFor
    <3>. QED
      BY <3>1, <3>2
  <2>10. chosen' = {} => (read \subseteq {attrs[op.slot]})'
    BY <1>0, <2>1, <2>6, <2>7 DEF ChoiceInv
  <2>11. (list = {} => \A a, b \in chosen : a = b)'
    BY <2>1, <2>4 DEF ChoiceInv
  <2>12. (pc = "busy" /\ chosen # {} => ~Pending("list") /\ ~Pending("choose"))'
    BY <1>0, <2>1 DEF ChoiceInv
  <2>. QED
    BY <2>9, <2>10, <2>11, <2>12 DEF ChoiceInv
<1>. QED
  BY <1>1, <1>2

\* What is known of the chosen attributes is true in every state.
LEMMA ChoiceInvHolds == KeysSpec => []ChoiceInv
<1>1. KeysInit => ChoiceInv
  BY DEF KeysInit, ChoiceInv, ChosenAttributesFit
<1>2. TypesInv /\ ChoiceInv /\ [KeysNext]_keysVars => ChoiceInv'
  <2> SUFFICES ASSUME TypesInv, ChoiceInv, [KeysNext]_keysVars PROVE ChoiceInv'
    OBVIOUS
  <2>1. CASE TaskStep
    BY <2>1, TasksKeepChoice
  <2>2. CASE Calling
    <3>1. chosen' = {} /\ read' = {}
      BY <2>2, CallsBegin DEF Begun, Call, NoData
    <3>. QED
      BY <3>1 DEF ChoiceInv, ChosenAttributesFit
  <2>3. CASE Begin
    BY <2>3 DEF Begin, NoData, ChoiceInv, ChosenAttributesFit
  <2>4. CASE Open \/ End \/ InvalidateCache \/ (\E s \in Slot : OtherTouch(s)) \/ UNCHANGED keysVars
    <3>1. /\ UNCHANGED <<op, list, chosen, todo, read, attrs>>
          /\ pc' = "busy" => pc = "busy"
      BY <2>4 DEF Open, End, InvalidateCache, OtherTouch, keysVars, cardVars, callVars, dataVars
    <3>2. ChosenAttributesFit'
      BY <3>1 DEF ChoiceInv, ChosenAttributesFit, ListedFor
    <3>. QED
      BY <3>1, <3>2 DEF ChoiceInv, Pending
  <2>. QED
    BY <2>1, <2>2, <2>3, <2>4 DEF KeysNext, TaskStep, Calling
<1>. QED
  BY <1>1, <1>2, TypesInvHolds, PTL DEF KeysSpec

\* Attributes that are chosen are of the key they are for, and stand in the card's list
\* for its slot, whatever the list has in it.
THEOREM ChosenFit == KeysSpec => []ChosenAttributesFit
BY ChoiceInvHolds, PTL DEF ChoiceInv
=============================================================================
