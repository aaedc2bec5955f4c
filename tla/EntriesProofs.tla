---------------------------- MODULE EntriesProofs ----------------------------
(***************************************************************************)
(* What getLedgerEntries serves is what the operations of the committed     *)
(* transactions left, as their clients wrote it: EntriesExact, of every answer *)
(* that is given.  On the way: what steps that run in order leave at a place; *)
(* how operations become steps, and what a lookup in their world is served as; *)
(* that what is in the world could run in its order; and, as an inductive   *)
(* invariant of RpcSpec, that what was found is what the world still holds. *)
(***************************************************************************)
EXTENDS RpcProofs, ScValProofs

-----------------------------------------------------------------------------
(* The worlds that steps lead through.                                      *)

\* f leads through the worlds of the first m steps.
IsWorlds(f, steps, m) ==
  f = [n \in 0 .. m |-> IF n = 0 THEN EmptyWorld ELSE RunStep(f[n - 1], steps[n])]

\* The world after n steps is made by the n-th from the one before.
LEMMA WorldAt ==
  ASSUME NEW f, NEW steps, NEW m \in Nat, IsWorlds(f, steps, m), NEW n \in 0 .. m
  PROVE  f[n] = IF n = 0 THEN EmptyWorld ELSE RunStep(f[n - 1], steps[n])
<1> DEFINE g == [k \in 0 .. m |-> IF k = 0 THEN EmptyWorld ELSE RunStep(f[k - 1], steps[k])]
<1>1. f = g
  BY DEF IsWorlds
<1>2. g[n] = IF n = 0 THEN EmptyWorld ELSE RunStep(f[n - 1], steps[n])
  OBVIOUS
<1> QED
  BY <1>1, <1>2

\* There is such a function, for every sequence of steps.
LEMMA WorldsExist ==
  ASSUME NEW steps, NEW m \in Nat
  PROVE  \E f : IsWorlds(f, steps, m)
<1> DEFINE T == {n \in Nat : \E f : IsWorlds(f, steps, n)}
<1>1. 0 \in T
  <2> DEFINE f == [n \in 0 .. 0 |-> EmptyWorld]
  <2>1. f = [n \in 0 .. 0 |-> IF n = 0 THEN EmptyWorld ELSE RunStep(f[n - 1], steps[n])]
    OBVIOUS
  <2>2. IsWorlds(f, steps, 0)
    BY <2>1 DEF IsWorlds
  <2> QED
    BY <2>2
<1>2. ASSUME NEW n \in 1 .. m, n - 1 \in T PROVE n \in T
  <2>1. PICK f : IsWorlds(f, steps, n - 1)
    BY <1>2
  <2> DEFINE g == [k \in 0 .. n |-> IF k = n THEN RunStep(f[n - 1], steps[n]) ELSE f[k]]
  <2>2. ASSUME NEW k \in 0 .. n
        PROVE  g[k] = IF k = 0 THEN EmptyWorld ELSE RunStep(g[k - 1], steps[k])
    <3>1. CASE k = n
      <4>1. n - 1 \in 0 .. n /\ n - 1 # n /\ n # 0
        OBVIOUS
      <4>2. g[n - 1] = f[n - 1]
        BY <4>1
      <4> QED
        BY <3>1, <4>1, <4>2
    <3>2. CASE k # n
      <4>1. k \in 0 .. n - 1 /\ n - 1 \in Nat
        BY <3>2
      <4>2. g[k] = f[k]
        BY <3>2
      <4>3. k # 0 => k - 1 \in 0 .. n /\ k - 1 # n
        BY <3>2
      <4>4. k # 0 => g[k - 1] = f[k - 1]
        BY <4>3
      <4>5. f[k] = IF k = 0 THEN EmptyWorld ELSE RunStep(f[k - 1], steps[k])
        BY <2>1, <4>1, WorldAt
      <4> HIDE DEF g
      <4> QED
        BY <4>2, <4>4, <4>5
    <3> QED
      BY <3>1, <3>2
  <2>3. g = [k \in 0 .. n |-> g[k]]
    OBVIOUS
  <2> HIDE DEF g
  <2>4. IsWorlds(g, steps, n)
    BY <2>2, <2>3 DEF IsWorlds
  <2> QED
    BY <2>4
<1> HIDE DEF T
<1>3. 0 .. m \subseteq T
  BY <1>1, <1>2, UptoInduction
<1>4. m \in T
  BY <1>3
<1> QED
  BY <1>4 DEF T

\* WorldsOf is one.
LEMMA WorldsAre ==
  ASSUME NEW steps, Len(steps) \in Nat
  PROVE  /\ WorldsOf(steps)[0] = EmptyWorld
         /\ \A n \in 1 .. Len(steps) :
              WorldsOf(steps)[n] = RunStep(WorldsOf(steps)[n - 1], steps[n])
<1>1. \E f : IsWorlds(f, steps, Len(steps))
  BY WorldsExist
<1> DEFINE f == CHOOSE g : IsWorlds(g, steps, Len(steps))
<1>2. IsWorlds(f, steps, Len(steps))
  BY <1>1
<1>3. WorldsOf(steps) = f
  BY DEF WorldsOf, IsWorlds
<1> HIDE DEF f
<1>4. \A n \in 0 .. Len(steps) : f[n] = IF n = 0 THEN EmptyWorld ELSE RunStep(f[n - 1], steps[n])
  BY <1>2, WorldAt
<1>5. f[0] = EmptyWorld
  <2>1. 0 \in 0 .. Len(steps)
    OBVIOUS
  <2> QED
    BY <1>4, <2>1
<1>6. ASSUME NEW n \in 1 .. Len(steps) PROVE f[n] = RunStep(f[n - 1], steps[n])
  <2>1. n \in 0 .. Len(steps) /\ n # 0
    OBVIOUS
  <2> QED
    BY <1>4, <2>1
<1> QED
  BY <1>3, <1>5, <1>6

\* A step leaves its content at its target and everything else alone.
LEMMA StepWrites ==
  ASSUME NEW w, NEW step
  PROVE  /\ DOMAIN RunStep(w, step) = DOMAIN w \cup {Target(step)}
         /\ RunStep(w, step)[Target(step)] = Content(w, step)
         /\ \A p \in DOMAIN w : p # Target(step) => RunStep(w, step)[p] = w[p]
  BY DEF RunStep

\* There is something at the places that were written, and nowhere else.
LEMMA WrittenPlaces ==
  ASSUME NEW steps, Len(steps) \in Nat
  PROVE  \A n \in 0 .. Len(steps) :
           DOMAIN WorldsOf(steps)[n] = {Target(steps[i]) : i \in 1 .. n}
<1> DEFINE W == WorldsOf(steps)
           T == {n \in 0 .. Len(steps) : DOMAIN W[n] = {Target(steps[i]) : i \in 1 .. n}}
<1>1. 0 \in T
  <2>1. DOMAIN EmptyWorld = {}
    BY DEF EmptyWorld
  <2> QED
    BY <2>1, WorldsAre
<1>2. ASSUME NEW n \in 1 .. Len(steps), n - 1 \in T PROVE n \in T
  <2>0. W[n] = RunStep(W[n - 1], steps[n])
    BY WorldsAre
  <2> DEFINE v == W[n]
             w == W[n - 1]
             step == steps[n]
  <2> HIDE DEF T
  <2>3. DOMAIN RunStep(w, step) = DOMAIN w \cup {Target(step)}
    BY StepWrites
  <2>4. v = RunStep(w, step)
    BY <2>0
  <2> HIDE DEF v, w, step
  <2>5. DOMAIN v = DOMAIN w \cup {Target(step)}
    BY <2>3, <2>4
  <2>1. DOMAIN W[n] = DOMAIN W[n - 1] \cup {Target(steps[n])}
    BY <2>5 DEF v, w, step
  <2> USE DEF T
  <2>2. 1 .. n = (1 .. n - 1) \cup {n}
    OBVIOUS
  <2> QED
    BY <1>2, <2>1, <2>2
<1> HIDE DEF T
<1>3. 0 .. Len(steps) \subseteq T
  BY <1>1, <1>2, UptoInduction
<1> QED
  BY <1>3 DEF T

\* What is at a place is what the last step to write it left there.
LEMMA LastWriter ==
  ASSUME NEW steps, Len(steps) \in Nat, NEW i \in 1 .. Len(steps), NEW n \in i .. Len(steps),
         \A j \in i + 1 .. n : Target(steps[j]) # Target(steps[i])
  PROVE  WorldsOf(steps)[n][Target(steps[i])] = Content(WorldsOf(steps)[i - 1], steps[i])
<1> DEFINE W == WorldsOf(steps)
           p == Target(steps[i])
           c == Content(W[i - 1], steps[i])
           T == {k \in 0 .. n : k >= i => W[k][p] = c}
<1>1. 0 \in T
  OBVIOUS
<1>2. ASSUME NEW k \in 1 .. n, k - 1 \in T PROVE k \in T
  <2> SUFFICES ASSUME k >= i PROVE W[k][p] = c
    OBVIOUS
  <2>1. k \in 1 .. Len(steps) /\ k - 1 \in 0 .. Len(steps)
    OBVIOUS
  <2>2. W[k] = RunStep(W[k - 1], steps[k])
    BY <2>1, WorldsAre
  <2> DEFINE v == W[k - 1]
  <2>5. W[k] = RunStep(v, steps[k])
    BY <2>2
  <2>3. CASE k = i
    <3>1. c = Content(v, steps[k])
      BY <2>3
    <3>2. p = Target(steps[k])
      BY <2>3
    <3> HIDE DEF v, c, p, W
    <3> QED
      BY <2>5, <3>1, <3>2, StepWrites
  <2>4. CASE k > i
    <3>1. i \in 1 .. k - 1 /\ k - 1 >= i /\ k \in i + 1 .. n
      BY <2>4
    <3>2. p \in DOMAIN W[k - 1]
      BY <2>1, <3>1, WrittenPlaces
    <3>3. p # Target(steps[k])
      BY <3>1
    <3>4. v[p] = c
      BY <1>2, <3>1
    <3>5. p \in DOMAIN v
      BY <3>2
    <3> DEFINE step == steps[k]
    <3>6. p # Target(step) /\ W[k] = RunStep(v, step)
      BY <3>3, <2>5
    <3> HIDE DEF v, c, p, W, step, T
    <3>7. RunStep(v, step)[p] = v[p]
      BY ONLY <3>5, <3>6, StepWrites
    <3> QED
      BY <3>4, <3>6, <3>7
  <2> QED
    BY <2>3, <2>4
<1> HIDE DEF T
<1>0. n \in Nat
  OBVIOUS
<1>3. 0 .. n \subseteq T
  BY <1>0, <1>1, <1>2, UptoInduction
<1>4. n \in 0 .. n
  OBVIOUS
<1>5. n \in T
  BY <1>3, <1>4
<1> QED
  BY <1>5 DEF T

-----------------------------------------------------------------------------
(* The entry of a contract.                                                 *)

IsStep(step) == step.op \in {"setAccount", "uploadWasm", "deployContract", "callTx"}

Deploys(step, c) == step.op = "deployContract" /\ step.address = c
Stores(step, c)  == step.op = "callTx" /\ step.func = "instance" /\ step.to = c

StepKey(step) == decodeArg[step.args[1]]
StepVal(step) == decodeArg[step.args[2]]

\* The entry of a contract is written by its deployments and what stores with it.
LEMMA TargetIsContract ==
  ASSUME NEW step, IsStep(step), NEW c
  PROVE  Target(step) = <<"contract", c>> <=> Deploys(step, c) \/ Stores(step, c)
<1>1. CASE step.op = "setAccount"
  <2>1. Target(step) = <<"account", step.account>>
    BY <1>1 DEF Target
  <2> QED
    BY <1>1, <2>1 DEF Deploys, Stores
<1>2. CASE step.op = "uploadWasm"
  <2>1. Target(step) = <<"code", step.hash>>
    BY <1>2 DEF Target
  <2> QED
    BY <1>2, <2>1 DEF Deploys, Stores
<1>3. CASE step.op = "deployContract"
  <2>1. Target(step) = <<"contract", step.address>>
    BY <1>3 DEF Target
  <2> QED
    BY <1>3, <2>1 DEF Deploys, Stores
<1>4. CASE step.op = "callTx"
  <2>1. Target(step) = IF step.func = "instance" THEN <<"contract", step.to>>
                       ELSE <<"data", step.to, step.func, decodeArg[step.args[1]]>>
    BY <1>4 DEF Target
  <2> QED
    BY <1>4, <2>1 DEF Deploys, Stores
<1> QED
  BY <1>1, <1>2, <1>3, <1>4 DEF IsStep

\* What is stored with the contract from the m-th step, its deployment, to the n-th.
StoresBetween(steps, c, m, n) == {i \in m + 1 .. n : Stores(steps[i], c)}

LastStores(steps, c, m, n) ==
  {i \in StoresBetween(steps, c, m, n) :
     \A j \in StoresBetween(steps, c, m, n) : StepKey(steps[j]) = StepKey(steps[i]) => j <= i}

\* What was stored last under each key.
Kept(steps, c, m, n) ==
  {<<StepKey(steps[i]), StepVal(steps[i])>> : i \in LastStores(steps, c, m, n)}

LEMMA NothingKept ==
  ASSUME NEW steps, NEW c, NEW m \in Nat
  PROVE  Kept(steps, c, m, m) = {}
<1>1. m + 1 .. m = {}
  OBVIOUS
<1> QED
  BY <1>1 DEF Kept, LastStores, StoresBetween

LEMMA KeptAsBefore ==
  ASSUME NEW steps, NEW c, NEW m \in Nat, NEW n \in Nat, n > m, ~Stores(steps[n], c)
  PROVE  Kept(steps, c, m, n) = Kept(steps, c, m, n - 1)
<1>1. m + 1 .. n = (m + 1 .. n - 1) \cup {n}
  OBVIOUS
<1>2. StoresBetween(steps, c, m, n) = StoresBetween(steps, c, m, n - 1)
  BY <1>1 DEF StoresBetween
<1> QED
  BY <1>2 DEF Kept, LastStores

LEMMA KeptOneMore ==
  ASSUME NEW steps, NEW c, NEW m \in Nat, NEW n \in Nat, n > m, Stores(steps[n], c)
  PROVE  Kept(steps, c, m, n)
           = StoredIn(Kept(steps, c, m, n - 1), StepKey(steps[n]), StepVal(steps[n]))
<1> DEFINE s == StoresBetween(steps, c, m, n - 1)
           S == StoresBetween(steps, c, m, n)
           K(i) == StepKey(steps[i])
           V(i) == StepVal(steps[i])
           l == LastStores(steps, c, m, n - 1)
           L == LastStores(steps, c, m, n)
<1>1. /\ s \subseteq m + 1 .. n - 1 /\ S = s \cup {n}
  <2>1. m + 1 .. n = (m + 1 .. n - 1) \cup {n}
    OBVIOUS
  <2> QED
    BY <2>1 DEF StoresBetween
<1>2. /\ l = {i \in s : \A j \in s : K(j) = K(i) => j <= i}
      /\ L = {i \in S : \A j \in S : K(j) = K(i) => j <= i}
  BY DEF LastStores
<1>3. \A i \in s : i \in Int /\ i < n
  BY <1>1
<1> HIDE DEF s, S, K, V, l, L
<1>4. L = {i \in l : K(i) # K(n)} \cup {n}
  <2>1. ASSUME NEW i \in L PROVE i \in {j \in l : K(j) # K(n)} \cup {n}
    BY <1>1, <1>2, <1>3
  <2>2. n \in L
    BY <1>1, <1>2, <1>3
  <2>3. ASSUME NEW i \in l, K(i) # K(n) PROVE i \in L
    BY <1>1, <1>2, <1>3, <2>3
  <2> QED
    BY <2>1, <2>2, <2>3
<1>5. {<<K(i), V(i)>> : i \in L}
        = {e \in {<<K(i), V(i)>> : i \in l} : e[1] # K(n)} \cup {<<K(n), V(n)>>}
  <2> DEFINE E == {<<K(i), V(i)>> : i \in L}
             F == {e \in {<<K(i), V(i)>> : i \in l} : e[1] # K(n)} \cup {<<K(n), V(n)>>}
  <2>1. ASSUME NEW e \in E PROVE e \in F
    <3>1. PICK i \in L : e = <<K(i), V(i)>>
      OBVIOUS
    <3>2. CASE i = n
      BY <3>1, <3>2
    <3>3. CASE i \in l /\ K(i) # K(n)
      <4>1. e[1] # K(n)
        BY <3>1, <3>3
      <4> QED
        BY <3>1, <3>3, <4>1
    <3> QED
      BY <1>4, <3>2, <3>3
  <2>2. ASSUME NEW e \in F PROVE e \in E
    <3>1. CASE e = <<K(n), V(n)>>
      BY <1>4, <3>1
    <3>2. CASE e \in {<<K(i), V(i)>> : i \in l} /\ e[1] # K(n)
      <4>1. PICK i \in l : e = <<K(i), V(i)>>
        BY <3>2
      <4>2. K(i) # K(n)
        BY <3>2, <4>1
      <4>3. i \in L
        BY <1>4, <4>2
      <4> QED
        BY <4>1, <4>3
    <3> QED
      BY <3>1, <3>2
  <2> QED
    BY <2>1, <2>2
<1> QED
  BY <1>5 DEF StoredIn, Kept, K, V, l, L

\* As long as a contract is called only where one is deployed, none is where none was deployed.
CalledWhereDeployed(steps) ==
  \A i \in 1 .. Len(steps) : steps[i].op = "callTx" =>
    <<"contract", steps[i].to>> \in {Target(steps[j]) : j \in 1 .. i - 1}

LEMMA NoContractThere ==
  ASSUME NEW steps, Len(steps) \in Nat, \A i \in 1 .. Len(steps) : IsStep(steps[i]),
         CalledWhereDeployed(steps), NEW c, NEW n \in 0 .. Len(steps),
         \A i \in 1 .. n : ~Deploys(steps[i], c)
  PROVE  <<"contract", c>> \notin DOMAIN WorldsOf(steps)[n]
<1> DEFINE p == <<"contract", c>>
           T == {k \in 0 .. n : p \notin {Target(steps[j]) : j \in 1 .. k}}
<1>1. 0 \in T
  OBVIOUS
<1>2. ASSUME NEW k \in 1 .. n, k - 1 \in T PROVE k \in T
  <2>1. k \in 1 .. Len(steps) /\ 1 .. k = (1 .. k - 1) \cup {k}
    OBVIOUS
  <2>2. p # Target(steps[k])
    <3> SUFFICES ASSUME p = Target(steps[k]) PROVE FALSE
      OBVIOUS
    <3>1. Stores(steps[k], c)
      BY <2>1, TargetIsContract
    <3>2. p \in {Target(steps[j]) : j \in 1 .. k - 1}
      BY <2>1, <3>1 DEF Stores, CalledWhereDeployed
    <3> QED
      BY <1>2, <3>2
  <2> QED
    BY <1>2, <2>1, <2>2
<1>0. n \in Nat
  OBVIOUS
<1> HIDE DEF T
<1>3. 0 .. n \subseteq T
  BY <1>0, <1>1, <1>2, UptoInduction
<1>4. n \in T
  BY <1>0, <1>3
<1> QED
  BY <1>4, WrittenPlaces DEF T

\* The entry of a contract is that of its last deployment, with what was stored since.
LEMMA ContractThere ==
  ASSUME NEW steps, Len(steps) \in Nat, \A i \in 1 .. Len(steps) : IsStep(steps[i]),
         NEW c, NEW m \in 1 .. Len(steps), Deploys(steps[m], c), NEW n \in m .. Len(steps),
         \A i \in m + 1 .. n : ~Deploys(steps[i], c)
  PROVE  /\ <<"contract", c>> \in DOMAIN WorldsOf(steps)[n]
         /\ WorldsOf(steps)[n][<<"contract", c>>]
              = [wasmHash |-> steps[m].wasmHash, storage |-> Kept(steps, c, m, n)]
<1> DEFINE p == <<"contract", c>>
           W == WorldsOf(steps)
           entry(k) == [wasmHash |-> steps[m].wasmHash, storage |-> Kept(steps, c, m, k)]
           T == {k \in 0 .. n : k >= m => p \in DOMAIN W[k] /\ W[k][p] = entry(k)}
<1>0. n \in Nat /\ m \in Nat
  OBVIOUS
<1>1. 0 \in T
  OBVIOUS
<1>2. ASSUME NEW k \in 1 .. n, k - 1 \in T PROVE k \in T
  <2> SUFFICES ASSUME k >= m PROVE p \in DOMAIN W[k] /\ W[k][p] = entry(k)
    OBVIOUS
  <2> DEFINE w == W[k - 1]
             step == steps[k]
  <2>1. k \in 1 .. Len(steps) /\ k - 1 \in Nat /\ k \in Nat
    OBVIOUS
  <2>2. W[k] = RunStep(w, step)
    BY <2>1, WorldsAre
  <2>3. IsStep(step)
    BY <2>1
  <2>4. CASE k = m
    <3>1. Deploys(step, c)
      BY <2>4
    <3> HIDE DEF W, w, step, p
    <3>2. Target(step) = p
      BY <2>3, <3>1, TargetIsContract DEF p
    <3>3. Content(w, step) = [wasmHash |-> step.wasmHash, storage |-> {}]
      BY <3>1 DEF Content, Deploys
    <3>4. p \in DOMAIN RunStep(w, step) /\ RunStep(w, step)[p] = Content(w, step)
      BY <3>2, StepWrites
    <3>5. Kept(steps, c, m, k) = {}
      BY <1>0, <2>4, NothingKept
    <3> QED
      BY <2>2, <2>4, <3>3, <3>4, <3>5 DEF step
  <2>5. CASE k > m
    <3>1. k - 1 >= m /\ k \in m + 1 .. n
      BY <1>0, <2>1, <2>5
    <3>2. p \in DOMAIN w /\ w[p] = entry(k - 1)
      BY <1>2, <3>1
    <3>3. ~Deploys(step, c)
      BY <3>1
    <3> HIDE DEF W, w, p
    <3>4. CASE Stores(step, c)
      <4>1. Target(step) = p
        BY <2>3, <3>4, TargetIsContract DEF p
      <4>2. Content(w, step) = [w[Target(step)] EXCEPT !.storage
                                  = StoredIn(@, StepKey(step), StepVal(step))]
        BY <3>4 DEF Content, Stores, StepKey, StepVal
      <4>3. Kept(steps, c, m, k) = StoredIn(Kept(steps, c, m, k - 1), StepKey(step), StepVal(step))
        BY <1>0, <2>1, <2>5, <3>4, KeptOneMore
      <4> HIDE DEF step
      <4>4. Content(w, step) = entry(k)
        BY <3>2, <4>1, <4>2, <4>3
      <4>5. p \in DOMAIN RunStep(w, step) /\ RunStep(w, step)[p] = Content(w, step)
        BY <4>1, StepWrites
      <4> QED
        BY <2>2, <4>4, <4>5
    <3>5. CASE ~Stores(step, c)
      <4>1. Target(step) # p
        BY <2>3, <3>3, <3>5, TargetIsContract DEF p
      <4>2. Kept(steps, c, m, k) = Kept(steps, c, m, k - 1)
        BY <1>0, <2>1, <2>5, <3>5, KeptAsBefore
      <4> HIDE DEF step
      <4>4. p \in DOMAIN w
        BY <3>2
      <4>3. p \in DOMAIN RunStep(w, step) /\ RunStep(w, step)[p] = w[p]
        BY ONLY <4>1, <4>4, StepWrites
      <4> QED
        BY <2>2, <3>2, <4>2, <4>3
    <3> QED
      BY <3>4, <3>5
  <2> QED
    BY <1>0, <2>1, <2>4, <2>5
<1> HIDE DEF T
<1>3. 0 .. n \subseteq T
  BY <1>0, <1>1, <1>2, UptoInduction
<1>4. n \in T
  BY <1>0, <1>3
<1> QED
  BY <1>0, <1>4 DEF T

\* The steps that write a place.
WritersOf(steps, p) == {i \in 1 .. Len(steps) : Target(steps[i]) = p}

\* At a place is what the last of its writers left.
LEMMA AtPlace ==
  ASSUME NEW steps, Len(steps) \in Nat, NEW p
  PROVE  /\ p \in DOMAIN RunSteps(steps) <=> WritersOf(steps, p) # {}
         /\ WritersOf(steps, p) # {} =>
              \E w : RunSteps(steps)[p] = Content(w, steps[Max(WritersOf(steps, p))])
         /\ WritersOf(steps, p) # {} => Max(WritersOf(steps, p)) \in WritersOf(steps, p)
<1> DEFINE n == Len(steps)
           D == WritersOf(steps, p)
           m == Max(D)
<1>1. n \in 0 .. n /\ DOMAIN RunSteps(steps) = {Target(steps[i]) : i \in 1 .. n}
  BY WrittenPlaces DEF RunSteps
<1>2. p \in DOMAIN RunSteps(steps) <=> D # {}
  BY <1>1 DEF WritersOf
<1>3. ASSUME D # {} PROVE m \in D /\ \A i \in D : i <= m
  <2>1. D \in SUBSET (1 .. n)
    BY DEF WritersOf
  <2> HIDE DEF D
  <2> QED
    BY <1>3, <2>1, MaxIs
<1>4. ASSUME D # {} PROVE RunSteps(steps)[p] = Content(WorldsOf(steps)[m - 1], steps[m])
  <2>1. m \in 1 .. n /\ Target(steps[m]) = p
    BY <1>3, <1>4 DEF WritersOf
  <2>2. n \in m .. n
    BY <2>1
  <2>3. ASSUME NEW j \in m + 1 .. n PROVE Target(steps[j]) # p
    <3>1. j \in 1 .. n /\ ~(j <= m)
      BY <2>1
    <3>2. j \notin D
      BY <1>3, <1>4, <3>1
    <3> QED
      BY <3>1, <3>2 DEF WritersOf
  <2> HIDE DEF m, D
  <2>4. WorldsOf(steps)[n][Target(steps[m])] = Content(WorldsOf(steps)[m - 1], steps[m])
    BY <2>1, <2>2, <2>3, LastWriter
  <2> QED
    BY <2>1, <2>4 DEF RunSteps
<1> QED
  BY <1>2, <1>3, <1>4

-----------------------------------------------------------------------------
(* Operations and the steps they are encoded as.                            *)

\* The step an operation is encoded as.
Encodes(op, step) ==
  \/ /\ op.type = "createAccount" /\ step.op = "setAccount"
     /\ step.account = op.account /\ step.balance = op.balance \div TenthsPerStroop
  \/ /\ op.type = "upload" /\ step.op = "uploadWasm" /\ step.hash = op.hash
  \/ /\ op.type = "createContract" /\ step.op = "deployContract"
     /\ op.address # NoContract
     /\ step.address = op.address /\ step.wasmHash = op.wasmHash
  \/ /\ op.type = "invokeContract" /\ step.op = "callTx"
     /\ op.to # NoContract
     /\ step.to = op.to /\ step.func = op.func
     /\ op.args = <<op.args[1], op.args[2]>> /\ op.args[1] \in Storable /\ op.args[2] \in Storable
     /\ StepKey(step) = Stored(op.args[1]) /\ StepVal(step) = Stored(op.args[2])

\* ... and as it is encoded of any argument in the right form.  An argument has to
\* be one that the semantics can decode for the two to be the same.
Translates(op, step) ==
  \/ op.type # "invokeContract" /\ Encodes(op, step)
  \/ /\ op.type = "invokeContract" /\ step.op = "callTx"
     /\ op.to # NoContract
     /\ step.to = op.to /\ step.func = op.func
     /\ op.args = <<op.args[1], op.args[2]>> /\ op.args[1] \in Fine /\ op.args[2] \in Fine
     /\ DOMAIN step.args = {1, 2}
     /\ step.args[1] = scval_to_json[op.args[1]] /\ step.args[2] = scval_to_json[op.args[2]]

TranslatedAs(ops, steps) ==
  /\ Len(ops) \in Nat /\ DOMAIN ops = 1 .. Len(ops) /\ Len(steps) = Len(ops)
  /\ \A i \in 1 .. Len(ops) : Translates(ops[i], steps[i])

ArgsDefined(step) == step.op = "callTx" => \A i \in DOMAIN step.args : Defined[step.args[i]]

EncodedAs(ops, steps) ==
  /\ Len(ops) \in Nat /\ DOMAIN ops = 1 .. Len(ops) /\ Len(steps) = Len(ops)
  /\ \A i \in 1 .. Len(ops) : Encodes(ops[i], steps[i])

\* Steps whose arguments can be decoded are the operations.
LEMMA TranslatedIsEncoded ==
  ASSUME NEW ops, NEW steps, TranslatedAs(ops, steps),
         \A i \in 1 .. Len(steps) : ArgsDefined(steps[i])
  PROVE  EncodedAs(ops, steps)
<1>1. ASSUME NEW i \in 1 .. Len(ops) PROVE Encodes(ops[i], steps[i])
  <2> DEFINE op == ops[i]
             step == steps[i]
  <2>1. Translates(op, step) /\ ArgsDefined(step)
    BY DEF TranslatedAs
  <2> HIDE DEF op, step
  <2>2. Encodes(op, step)
    <3>1. CASE op.type # "invokeContract"
      BY <2>1, <3>1 DEF Translates
    <3>2. CASE op.type = "invokeContract"
      <4>1. /\ step.op = "callTx" /\ DOMAIN step.args = {1, 2}
            /\ step.args[1] = scval_to_json[op.args[1]]
            /\ step.args[2] = scval_to_json[op.args[2]]
            /\ op.args[1] \in Fine /\ op.args[2] \in Fine
        BY <2>1, <3>2 DEF Translates
      <4>2. op.args[1] \in Storable /\ op.args[2] \in Storable
        BY <2>1, <4>1 DEF ArgsDefined, Storable
      <4>3. StepKey(step) = Stored(op.args[1]) /\ StepVal(step) = Stored(op.args[2])
        BY <4>1 DEF StepKey, StepVal, Stored
      <4> QED
        BY <2>1, <3>2, <4>2, <4>3 DEF Translates, Encodes
    <3> QED
      BY <3>1, <3>2
  <2> QED
    BY <2>2 DEF op, step
<1> QED
  BY <1>1 DEF TranslatedAs, EncodedAs

\* The place an operation writes.
LEMMA TargetOfOp ==
  ASSUME NEW op, NEW step, Encodes(op, step)
  PROVE  /\ IsStep(step)
         /\ op.type = "createAccount" => Target(step) = <<"account", op.account>>
         /\ op.type = "upload" => Target(step) = <<"code", op.hash>>
         /\ op.type = "createContract" => Target(step) = <<"contract", op.address>>
         /\ op.type = "invokeContract" =>
              Target(step) = IF op.func = "instance" THEN <<"contract", op.to>>
                             ELSE <<"data", op.to, op.func, Stored(op.args[1])>>
         /\ op.type \in {"createAccount", "upload", "createContract", "invokeContract"}
<1>1. CASE op.type = "createAccount"
  BY <1>1 DEF Encodes, Target, IsStep
<1>2. CASE op.type = "upload"
  BY <1>2 DEF Encodes, Target, IsStep
<1>3. CASE op.type = "createContract"
  BY <1>3 DEF Encodes, Target, IsStep
<1>4. CASE op.type = "invokeContract"
  <2>1. step.op = "callTx" /\ StepKey(step) = Stored(op.args[1]) /\ step.to = op.to /\ step.func = op.func
    BY <1>4 DEF Encodes
  <2>2. Target(step) = IF step.func = "instance" THEN <<"contract", step.to>>
                       ELSE <<"data", step.to, step.func, StepKey(step)>>
    BY <2>1 DEF Target, StepKey
  <2> QED
    BY <1>4, <2>1, <2>2 DEF IsStep
<1>5. op.type \in {"createAccount", "upload", "createContract", "invokeContract"}
  BY DEF Encodes
<1> QED
  BY <1>1, <1>2, <1>3, <1>4, <1>5

-----------------------------------------------------------------------------
(* Entries, one kind of key after the other.                                *)

\* What is served for a key in a world.
EntryAt(w, k, files) ==
  IF Place(Descriptor(k)) \in DOMAIN w
  THEN EntryData([key |-> k, kind |-> Descriptor(k).kind,
                  payload |-> PayloadJson(w, Descriptor(k))], files)
  ELSE Dropped

\* The balance set last is served.
LEMMA AccountIsExact ==
  ASSUME NEW ops, NEW steps, EncodedAs(ops, steps), NEW k, k.type = "ACCOUNT", NEW files
  PROVE  EntryAt(RunSteps(steps), k, files) = AccountEntry(ops, k)
<1> DEFINE p == <<"account", k.account>>
           w == RunSteps(steps)
           d == [kind |-> "account", accountId |-> k.account]
           D == {i \in DOMAIN ops : ops[i].type = "createAccount" /\ ops[i].account = k.account}
<1>1. Descriptor(k) = d /\ Place(d) = p
  BY DEF Descriptor, Place
<1>2. Len(steps) \in Nat
  BY DEF EncodedAs
<1>3. WritersOf(steps, p) = D
  <2>1. ASSUME NEW i \in 1 .. Len(steps)
        PROVE  Target(steps[i]) = p <=> ops[i].type = "createAccount" /\ ops[i].account = k.account
    <3>1. Encodes(ops[i], steps[i])
      BY DEF EncodedAs
    <3> DEFINE op == ops[i]
               step == steps[i]
    <3> HIDE DEF op, step
    <3>2. Encodes(op, step)
      BY <3>1 DEF op, step
    <3>3. Target(step) = p <=> op.type = "createAccount" /\ op.account = k.account
      BY <3>2, TargetOfOp
    <3> QED
      BY <3>3 DEF op, step
  <2> QED
    BY <2>1 DEF WritersOf, EncodedAs
<1>4. CASE D = {}
  BY <1>1, <1>2, <1>3, <1>4, AtPlace DEF EntryAt, AccountEntry
<1>5. CASE D # {}
  <2> DEFINE m == Max(D)
  <2>1. p \in DOMAIN w /\ m \in D /\ \E v : w[p] = Content(v, steps[m])
    BY <1>2, <1>3, <1>5, AtPlace
  <2>2. PICK v : w[p] = Content(v, steps[m])
    BY <2>1
  <2>3. ops[m].type = "createAccount" /\ Encodes(ops[m], steps[m])
    BY <2>1 DEF EncodedAs
  <2>4. steps[m].op = "setAccount" /\ steps[m].balance = ops[m].balance \div TenthsPerStroop
    BY <2>3 DEF Encodes
  <2>5. w[p] = ops[m].balance \div TenthsPerStroop
    BY <2>2, <2>4 DEF Content
  <2>6. PayloadJson(w, d) = w[p]
    BY <1>1 DEF PayloadJson
  <2>7. EntryAt(w, k, files) = <<"balance", w[p]>>
    BY <1>1, <2>1, <2>6 DEF EntryAt, EntryData
  <2>8. AccountEntry(ops, k) = <<"balance", ops[m].balance \div TenthsPerStroop>>
    BY <1>5 DEF AccountEntry, LastOf
  <2> QED
    BY <2>5, <2>7, <2>8
<1> QED
  BY <1>4, <1>5

\* The bytes of a code are served once the upload got to keep them.
LEMMA CodeIsExact ==
  ASSUME NEW ops, NEW steps, EncodedAs(ops, steps), NEW k, k.type = "CONTRACT_CODE"
  PROVE  EntryAt(RunSteps(steps), k, WasmFiles) = CodeEntry(ops, k)
<1> DEFINE p == <<"code", k.hash>>
           w == RunSteps(steps)
           d == [kind |-> "contractCode", hash |-> k.hash]
           D == {i \in DOMAIN ops : ops[i].type = "upload" /\ ops[i].hash = k.hash}
<1>1. Descriptor(k) = d /\ Place(d) = p
  BY DEF Descriptor, Place
<1>2. Len(steps) \in Nat
  BY DEF EncodedAs
<1>3. WritersOf(steps, p) = D
  <2>1. ASSUME NEW i \in 1 .. Len(steps)
        PROVE  Target(steps[i]) = p <=> ops[i].type = "upload" /\ ops[i].hash = k.hash
    <3> DEFINE op == ops[i]
               step == steps[i]
    <3>1. Encodes(op, step)
      BY DEF EncodedAs
    <3> HIDE DEF op, step
    <3>2. Target(step) = p <=> op.type = "upload" /\ op.hash = k.hash
      BY <3>1, TargetOfOp
    <3> QED
      BY <3>2 DEF op, step
  <2> QED
    BY <2>1 DEF WritersOf, EncodedAs
<1>4. CASE D = {}
  <2>1. ~\E i \in DOMAIN ops : ops[i].type = "upload" /\ ops[i].hash = k.hash
    BY <1>4
  <2>2. p \notin DOMAIN w
    BY <1>2, <1>3, <1>4, AtPlace
  <2> QED
    BY <1>1, <2>1, <2>2 DEF EntryAt, CodeEntry
<1>5. CASE D # {}
  <2> DEFINE m == Max(D)
  <2>1. p \in DOMAIN w /\ m \in D /\ \E v : w[p] = Content(v, steps[m])
    BY <1>2, <1>3, <1>5, AtPlace
  <2>2. PICK v : w[p] = Content(v, steps[m])
    BY <2>1
  <2>3. ops[m].type = "upload" /\ ops[m].hash = k.hash /\ Encodes(ops[m], steps[m])
    BY <2>1 DEF EncodedAs
  <2>4. steps[m].op = "uploadWasm" /\ steps[m].hash = ops[m].hash
    BY <2>3 DEF Encodes
  <2>5. w[p] = k.hash
    BY <2>2, <2>3, <2>4 DEF Content
  <2>6. PayloadJson(w, d) = w[p]
    BY <1>1 DEF PayloadJson
  <2>7. EntryAt(w, k, WasmFiles) = IF k.hash \in WasmFiles THEN <<"code", k.hash>> ELSE Dropped
    BY <1>1, <2>1, <2>5, <2>6 DEF EntryAt, EntryData
  <2>8. \E i \in DOMAIN ops : ops[i].type = "upload" /\ ops[i].hash = k.hash
    BY <1>5
  <2> QED
    BY <2>7, <2>8 DEF CodeEntry
<1> QED
  BY <1>4, <1>5

\* What is stored comes back, if it has a form in JSON.
LEMMA ValueServed ==
  ASSUME NEW v \in Storable
  PROVE  ValueData(scVal2JSON[Stored(v)]) = IF NoForm[v] THEN Dropped ELSE <<"value", v>>
<1>1. RoundTrip(v) /\ ~Raises(v)
  BY ValuesComeBack, NotRaised
<1>2. Returned(v) = scval_from_json[scVal2JSON[Stored(v)]]
  BY DEF Returned, Served
<1> QED
  BY <1>1, <1>2 DEF ValueData, RoundTrip

\* The value stored last under a key is served, as the client wrote it.
LEMMA ValueIsExact ==
  ASSUME NEW ops, NEW steps, EncodedAs(ops, steps), NEW k, k.type = "CONTRACT_DATA",
         k.key # InstanceKey, k.key \in ScVals, k.durability # "instance",
         Descriptor(k).kind # "raises", Buildable(Descriptor(k)), NEW files
  PROVE  EntryAt(RunSteps(steps), k, files) = ValueEntry(ops, k)
<1> DEFINE p == <<"data", k.contract, k.durability, Stored(k.key)>>
           w == RunSteps(steps)
           d == [kind |-> "contractData", contract |-> k.contract,
                 durability |-> k.durability, scKey |-> scval_to_json[k.key]]
           D == {i \in Calls(ops, k.contract, k.durability) : ops[i].args[1] = k.key}
<1>2. Len(steps) \in Nat
  BY DEF EncodedAs
<1>3. CASE k.contract # NoContract /\ k.key \in Fine
  <2>1. Descriptor(k) = DataDescriptor(k)
    BY <1>3 DEF Descriptor
  <2>2. ~Raises(scval_to_json[k.key])
    BY <1>3 DEF Fine
  <2>3. scval_to_json[k.key] # Raise("NotImplementedError")
    BY <2>2 DEF Raises, Raise
  <2>4. Descriptor(k) = d
    BY <2>1, <2>2, <2>3 DEF DataDescriptor
  <2>0. k.key \in Storable
    BY <1>3, <2>4 DEF Buildable, Storable
  <2>5. Place(d) = p
    BY DEF Place, Stored
  <2>6. WritersOf(steps, p) = D
    <3>1. ASSUME NEW i \in 1 .. Len(steps)
          PROVE  Target(steps[i]) = p <=>
                   /\ ops[i].type = "invokeContract" /\ ops[i].to = k.contract
                   /\ ops[i].func = k.durability /\ ops[i].args[1] = k.key
      <4> DEFINE op == ops[i]
                 step == steps[i]
      <4>1. Encodes(op, step)
        BY DEF EncodedAs
      <4> HIDE DEF op, step
      <4>2. Target(step) = p <=> /\ op.type = "invokeContract" /\ op.to = k.contract
                                 /\ op.func = k.durability /\ op.args[1] = k.key
        <5>1. CASE op.type = "invokeContract"
          <6>1. Target(step) = IF op.func = "instance" THEN <<"contract", op.to>>
                               ELSE <<"data", op.to, op.func, Stored(op.args[1])>>
            BY <4>1, <5>1, TargetOfOp
          <6>2. op.args[1] \in Storable
            BY <4>1, <5>1 DEF Encodes
          <6>3. Stored(op.args[1]) = Stored(k.key) <=> op.args[1] = k.key
            BY <2>0, <6>2, KeysDoNotCollide
          <6>4. Target(step) = p <=> /\ op.func # "instance" /\ op.to = k.contract
                                     /\ op.func = k.durability /\ Stored(op.args[1]) = Stored(k.key)
            BY <6>1
          <6> QED
            BY <5>1, <6>3, <6>4
        <5>2. CASE op.type # "invokeContract"
          <6>1. Target(step) # p
            BY <4>1, <5>2, TargetOfOp
          <6> QED
            BY <5>2, <6>1
        <5> QED
          BY <5>1, <5>2
      <4> QED
        BY <4>2 DEF op, step
    <3> QED
      BY <3>1 DEF WritersOf, EncodedAs, Calls
  <2>7. CASE D = {}
    <3>1. p \notin DOMAIN w
      BY <1>2, <2>6, <2>7, AtPlace
    <3> QED
      BY <2>4, <2>5, <2>7, <3>1 DEF EntryAt, ValueEntry
  <2>8. CASE D # {}
    <3> DEFINE m == Max(D)
    <3>1. p \in DOMAIN w /\ m \in D /\ \E v : w[p] = Content(v, steps[m])
      BY <1>2, <2>6, <2>8, AtPlace
    <3>2. PICK v : w[p] = Content(v, steps[m])
      BY <3>1
    <3>3. /\ ops[m].type = "invokeContract" /\ ops[m].func = k.durability
          /\ Encodes(ops[m], steps[m])
      BY <3>1 DEF EncodedAs, Calls
    <3>4. /\ steps[m].op = "callTx" /\ steps[m].func # "instance"
          /\ StepVal(steps[m]) = Stored(ops[m].args[2]) /\ ops[m].args[2] \in Storable
      BY <3>3 DEF Encodes
    <3>5. w[p] = Stored(ops[m].args[2])
      BY <3>2, <3>4 DEF Content, StepVal
    <3>6. PayloadJson(w, d) = scVal2JSON[w[p]]
      BY <2>5 DEF PayloadJson
    <3>7. EntryAt(w, k, files) = ValueData(scVal2JSON[w[p]])
      BY <2>4, <2>5, <3>1, <3>6 DEF EntryAt, EntryData
    <3>8. ValueEntry(ops, k) = IF NoForm[ops[m].args[2]] THEN Dropped ELSE <<"value", ops[m].args[2]>>
      BY <2>8 DEF ValueEntry, LastOf
    <3> QED
      BY <3>4, <3>5, <3>7, <3>8, ValueServed
  <2> QED
    BY <2>7, <2>8
<1>4. CASE k.contract = NoContract \/ k.key \notin Fine
  <2>1. Descriptor(k) = UnsupportedKey
    <3>1. CASE k.contract = NoContract
      BY <3>1 DEF Descriptor
    <3>2. CASE k.contract # NoContract /\ k.key \notin Fine
      <4>1. Raises(scval_to_json[k.key])
        BY <3>2 DEF Fine
      <4>2. Descriptor(k) = DataDescriptor(k)
        BY <3>2 DEF Descriptor
      <4> QED
        BY <4>1, <4>2 DEF DataDescriptor
    <3> QED
      BY <1>4, <3>1, <3>2
  <2>2. Place(Descriptor(k)) = <<"nowhere">>
    BY <2>1 DEF Place, UnsupportedKey
  <2>3. D = {}
    <3>1. ASSUME NEW i \in D PROVE FALSE
      <4>1. /\ ops[i].type = "invokeContract" /\ ops[i].to = k.contract /\ ops[i].args[1] = k.key
            /\ Encodes(ops[i], steps[i])
        BY DEF Calls, EncodedAs
      <4> QED
        BY <1>4, <4>1 DEF Encodes, Storable
    <3> QED
      BY <3>1
  <2>4. WritersOf(steps, <<"nowhere">>) = {}
    <3>1. ASSUME NEW i \in 1 .. Len(steps) PROVE Target(steps[i]) # <<"nowhere">>
      <4> DEFINE op == ops[i]
                 step == steps[i]
      <4>1. Encodes(op, step)
        BY DEF EncodedAs
      <4> HIDE DEF op, step
      <4>2. Target(step) # <<"nowhere">>
        BY <4>1, TargetOfOp
      <4> QED
        BY <4>2 DEF step
    <3> QED
      BY <3>1 DEF WritersOf
  <2>5. EntryAt(w, k, files) = Dropped
    BY <1>2, <2>2, <2>4, AtPlace DEF EntryAt
  <2> QED
    BY <2>3, <2>5 DEF ValueEntry
<1> QED
  BY <1>3, <1>4

\* Pairs, and what a conversion of their components makes of them.
PairUp(a, b, L) == {<<a[i], b[i]>> : i \in L}
OnPairs(f, D)   == {<<f[e[1]], f[e[2]]>> : e \in D}

\* A conversion of pairs pairs up what it makes of their components.
LEMMA OnPairUp ==
  ASSUME NEW L, NEW a, NEW b, NEW f
  PROVE  OnPairs(f, PairUp(a, b, L)) = PairUp([i \in L |-> f[a[i]]], [i \in L |-> f[b[i]]], L)
<1> DEFINE c == [i \in L |-> f[a[i]]]
           d == [i \in L |-> f[b[i]]]
           P == PairUp(a, b, L)
           X == OnPairs(f, P)
           Y == PairUp(c, d, L)
<1>1. \A i \in L : c[i] = f[a[i]] /\ d[i] = f[b[i]]
  OBVIOUS
<1> HIDE DEF c, d
<1>2. ASSUME NEW x \in X PROVE x \in Y
  <2>1. PICK e \in P : x = <<f[e[1]], f[e[2]]>>
    BY DEF OnPairs
  <2>2. PICK i \in L : e = <<a[i], b[i]>>
    BY DEF PairUp
  <2>3. e[1] = a[i] /\ e[2] = b[i]
    BY <2>2
  <2>4. x = <<c[i], d[i]>>
    BY <1>1, <2>1, <2>3
  <2> QED
    BY <2>4 DEF PairUp
<1>3. ASSUME NEW y \in Y PROVE y \in X
  <2>1. PICK i \in L : y = <<c[i], d[i]>>
    BY DEF PairUp
  <2> DEFINE e == <<a[i], b[i]>>
  <2>2. e \in P /\ e[1] = a[i] /\ e[2] = b[i]
    BY DEF PairUp
  <2> HIDE DEF e, P
  <2>3. y = <<f[e[1]], f[e[2]]>>
    BY <1>1, <2>1, <2>2
  <2> QED
    BY <2>2, <2>3 DEF OnPairs
<1>4. X = Y
  BY <1>2, <1>3
<1> QED
  BY <1>4 DEF c, d

\* What an operation does to the entry of a contract, as a step.
LEMMA OpsOnContract ==
  ASSUME NEW op, NEW step, Encodes(op, step), NEW c
  PROVE  /\ Deploys(step, c) <=> op.type = "createContract" /\ op.address = c
         /\ Stores(step, c) <=> op.type = "invokeContract" /\ op.to = c /\ op.func = "instance"
         /\ Deploys(step, c) => step.wasmHash = op.wasmHash
         /\ Stores(step, c) =>
              /\ op.args = <<op.args[1], op.args[2]>> /\ op.args[1] \in Storable /\ op.args[2] \in Storable
              /\ StepKey(step) = Stored(op.args[1]) /\ StepVal(step) = Stored(op.args[2])
<1>1. CASE op.type = "createContract"
  <2>1. step.op = "deployContract" /\ step.address = op.address /\ step.wasmHash = op.wasmHash
    BY <1>1 DEF Encodes
  <2> QED
    BY <1>1, <2>1 DEF Deploys, Stores
<1>2. CASE op.type = "invokeContract"
  <2>1. /\ step.op = "callTx" /\ step.to = op.to /\ step.func = op.func
        /\ op.args = <<op.args[1], op.args[2]>> /\ op.args[1] \in Storable /\ op.args[2] \in Storable
        /\ StepKey(step) = Stored(op.args[1]) /\ StepVal(step) = Stored(op.args[2])
    BY <1>2 DEF Encodes
  <2>2. ~Deploys(step, c)
    BY <2>1 DEF Deploys
  <2>3. Stores(step, c) <=> op.to = c /\ op.func = "instance"
    BY <2>1 DEF Stores
  <2> QED
    BY <1>2, <2>1, <2>2, <2>3
<1>3. CASE op.type \notin {"createContract", "invokeContract"}
  <2>1. step.op \in {"setAccount", "uploadWasm"}
    BY <1>3 DEF Encodes
  <2> QED
    BY <1>3, <2>1 DEF Deploys, Stores
<1> QED
  BY <1>1, <1>2, <1>3

\* The storage of a contract is served, as the client wrote it, if all of it has a form in JSON.
StorablePairs(a, b, L)   == \A i \in L : a[i] \in Storable /\ b[i] \in Storable
StoredPairs(a, b, L) == {<<Stored(a[i]), Stored(b[i])>> : i \in L}
InstancePayload(hash, storage) ==
  [wasmHash |-> hash, storage |-> {<<scVal2JSON[e[1]], scVal2JSON[e[2]]>> : e \in storage}]

StorageComesBack(a, b, L, hash) ==
  InstanceData(InstancePayload(hash, StoredPairs(a, b, L)))
    = IF \E i \in L : NoForm[a[i]] \/ NoForm[b[i]] THEN Dropped
      ELSE <<"instance", hash, {<<a[i], b[i]>> : i \in L}>>

LEMMA StorageServed ==
  ASSUME NEW L, NEW a, NEW b, StorablePairs(a, b, L), NEW hash
  PROVE  StorageComesBack(a, b, L, hash)
<1> SUFFICES InstanceData(InstancePayload(hash, StoredPairs(a, b, L)))
               = IF \E i \in L : NoForm[a[i]] \/ NoForm[b[i]] THEN Dropped
                 ELSE <<"instance", hash, {<<a[i], b[i]>> : i \in L}>>
  BY DEF StorageComesBack
<1>0. \A i \in L : a[i] \in Storable /\ b[i] \in Storable
  BY DEF StorablePairs
<1> DEFINE sa == [i \in L |-> Stored(a[i])]
           sb == [i \in L |-> Stored(b[i])]
           ja == [i \in L |-> scVal2JSON[sa[i]]]
           jb == [i \in L |-> scVal2JSON[sb[i]]]
           ra == [i \in L |-> scval_from_json[ja[i]]]
           rb == [i \in L |-> scval_from_json[jb[i]]]
           K  == {<<Stored(a[i]), Stored(b[i])>> : i \in L}
           J  == {<<scVal2JSON[e[1]], scVal2JSON[e[2]]>> : e \in K}
           es == {<<scval_from_json[d[1]], scval_from_json[d[2]]>> : d \in J}
           rs == {<<Returned(a[i]), Returned(b[i])>> : i \in L}
           payload == [wasmHash |-> hash, storage |-> J]
<1>1. es = rs
  <2>1. K = PairUp(sa, sb, L)
    BY DEF PairUp
  <2>2. J = OnPairs(scVal2JSON, K) /\ es = OnPairs(scval_from_json, J)
    BY DEF OnPairs
  <2>3. \A i \in L : ra[i] = Returned(a[i]) /\ rb[i] = Returned(b[i])
    BY DEF Returned, Served
  <2> HIDE DEF K, J, es
  <2>4. J = PairUp(ja, jb, L)
    BY <2>1, <2>2, OnPairUp
  <2>5. es = PairUp(ra, rb, L)
    BY <2>2, <2>4, OnPairUp
  <2> HIDE DEF ra, rb
  <2> QED
    BY <2>3, <2>5 DEF PairUp
<1>2. \A i \in L : /\ RoundTrip(a[i]) /\ ~Raises(a[i])
                   /\ RoundTrip(b[i]) /\ ~Raises(b[i])
  BY <1>0, ValuesComeBack, NotRaised
<1>3. IF \E e \in es : Raises(e[1]) \/ Raises(e[2]) THEN Raises(MapOf(es))
      ELSE MapOf(es) = <<"map", es>>
  BY MapOfIs
<1>4. InstanceData(payload) = IF Raises(MapOf(es)) THEN Dropped
                              ELSE <<"instance", hash, MapOf(es)[2]>>
  <2>1. payload.storage = J /\ payload.wasmHash = hash
    OBVIOUS
  <2> HIDE DEF payload, J
  <2> QED
    BY <2>1 DEF InstanceData
<1> HIDE DEF es, J, K, payload
<1>5. CASE \E i \in L : NoForm[a[i]] \/ NoForm[b[i]]
  <2>1. PICK i \in L : NoForm[a[i]] \/ NoForm[b[i]]
    BY <1>5
  <2> DEFINE e == <<Returned(a[i]), Returned(b[i])>>
  <2>2. e \in es
    BY <1>1
  <2>3. Raises(Returned(a[i])) \/ Raises(Returned(b[i]))
    BY <1>2, <2>1 DEF RoundTrip
  <2>4. Raises(e[1]) \/ Raises(e[2])
    BY <2>3
  <2>5. Raises(MapOf(es))
    BY <1>3, <2>2, <2>4
  <2> QED
    BY <1>4, <1>5, <2>5 DEF payload, J, K, InstancePayload, StoredPairs
<1>6. CASE ~\E i \in L : NoForm[a[i]] \/ NoForm[b[i]]
  <2>1. \A i \in L : Returned(a[i]) = a[i] /\ Returned(b[i]) = b[i]
    BY <1>2, <1>6 DEF RoundTrip
  <2>2. rs = {<<a[i], b[i]>> : i \in L}
    BY <2>1
  <2>3. ASSUME NEW e \in es PROVE ~Raises(e[1]) /\ ~Raises(e[2])
    <3>1. PICK i \in L : e = <<a[i], b[i]>>
      BY <1>1, <2>2
    <3> QED
      BY <1>2, <3>1
  <2>4. MapOf(es) = <<"map", es>>
    BY <1>3, <2>3
  <2>5. ~Raises(MapOf(es)) /\ MapOf(es)[2] = es
    BY <2>4 DEF Raises
  <2>6. InstanceData(payload) = <<"instance", hash, es>>
    BY <1>4, <2>5
  <2> QED
    BY <1>1, <1>6, <2>2, <2>6 DEF payload, J, K, InstancePayload, StoredPairs
<1> QED
  BY <1>5, <1>6

\* A key that nothing is looked up for is a key nothing is due for.
LEMMA NothingNowhere ==
  ASSUME NEW ops, NEW steps, EncodedAs(ops, steps)
  PROVE  <<"nowhere">> \notin DOMAIN RunSteps(steps)
<1>1. ASSUME NEW i \in 1 .. Len(steps) PROVE Target(steps[i]) # <<"nowhere">>
  <2> DEFINE op == ops[i]
             step == steps[i]
  <2>1. Encodes(op, step)
    BY DEF EncodedAs
  <2> HIDE DEF op, step
  <2>2. Target(step) # <<"nowhere">>
    BY <2>1, TargetOfOp
  <2> QED
    BY <2>2 DEF step
<1>2. WritersOf(steps, <<"nowhere">>) = {} /\ Len(steps) \in Nat
  BY <1>1 DEF WritersOf, EncodedAs
<1> QED
  BY <1>2, AtPlace

\* Of a contract the last deployment is served, with what was stored since, as the
\* client wrote it.
LEMMA InstanceIsExact ==
  ASSUME NEW ops, NEW steps, EncodedAs(ops, steps), CalledWhereDeployed(steps),
         NEW k, k.type = "CONTRACT_DATA", k.key = InstanceKey, NEW files
  PROVE  EntryAt(RunSteps(steps), k, files) = InstanceEntry(ops, k)
<1> DEFINE c == k.contract
           n == Len(steps)
           p == <<"contract", c>>
           w == RunSteps(steps)
           desc == [kind |-> "contractInstance", contract |-> c]
           d == {i \in DOMAIN ops : ops[i].type = "createContract" /\ ops[i].address = c}
           m == Max(d)
           stores == {i \in Calls(ops, c, "instance") : i > m}
           last == {i \in stores : \A j \in stores : ops[j].args[1] = ops[i].args[1] => j <= i}
<1>1. n \in Nat /\ DOMAIN ops = 1 .. n /\ n \in 0 .. n
  BY DEF EncodedAs
<1>2. ASSUME NEW i \in 1 .. n
      PROVE  /\ IsStep(steps[i])
             /\ Deploys(steps[i], c) <=> i \in d
             /\ Stores(steps[i], c) <=> i \in Calls(ops, c, "instance")
             /\ i \in d => steps[i].wasmHash = ops[i].wasmHash /\ c # NoContract
             /\ i \in Calls(ops, c, "instance") =>
                  /\ ops[i].args = <<ops[i].args[1], ops[i].args[2]>>
                  /\ ops[i].args[1] \in Storable /\ ops[i].args[2] \in Storable
                  /\ StepKey(steps[i]) = Stored(ops[i].args[1])
                  /\ StepVal(steps[i]) = Stored(ops[i].args[2])
  <2> DEFINE op == ops[i]
             step == steps[i]
  <2>1. Encodes(op, step)
    BY <1>1 DEF EncodedAs
  <2>2. i \in d <=> op.type = "createContract" /\ op.address = c
    BY <1>1
  <2>3. i \in Calls(ops, c, "instance") <=>
          op.type = "invokeContract" /\ op.to = c /\ op.func = "instance"
    BY <1>1 DEF Calls
  <2> HIDE DEF op, step, d
  <2>4. IsStep(step)
    BY <2>1, TargetOfOp
  <2>5. op.type = "createContract" => op.address # NoContract
    BY <2>1 DEF Encodes
  <2>6. /\ Deploys(step, c) <=> op.type = "createContract" /\ op.address = c
        /\ Stores(step, c) <=> op.type = "invokeContract" /\ op.to = c /\ op.func = "instance"
        /\ Deploys(step, c) => step.wasmHash = op.wasmHash
        /\ Stores(step, c) =>
             /\ op.args = <<op.args[1], op.args[2]>> /\ op.args[1] \in Storable /\ op.args[2] \in Storable
             /\ StepKey(step) = Stored(op.args[1]) /\ StepVal(step) = Stored(op.args[2])
    BY <2>1, OpsOnContract
  <2> QED
    BY <2>2, <2>3, <2>4, <2>5, <2>6 DEF op, step
<1>3. ASSUME d # {} PROVE m \in d /\ \A i \in d : i <= m
  <2>1. d \in SUBSET (1 .. n)
    BY <1>1
  <2> HIDE DEF d
  <2> QED
    BY <1>1, <1>3, <2>1, MaxIs
<1>4. CASE c = NoContract \/ k.durability # "persistent"
  <2>1. Descriptor(k) = UnsupportedKey
    BY <1>4 DEF Descriptor
  <2>2. Place(Descriptor(k)) = <<"nowhere">>
    BY <2>1 DEF Place, UnsupportedKey
  <2>3. c = NoContract => d = {}
    BY <1>1, <1>2
  <2>4. EntryAt(w, k, files) = Dropped
    BY <2>2, NothingNowhere DEF EntryAt
  <2>5. InstanceEntry(ops, k) = Dropped
    BY <1>4, <2>3 DEF InstanceEntry
  <2> QED
    BY <2>4, <2>5
<1>5. CASE c # NoContract /\ k.durability = "persistent"
  <2>1. Descriptor(k) = desc /\ Place(desc) = p
    BY <1>5 DEF Descriptor, Place
  <2>2. CASE d = {}
    <3>1. \A i \in 1 .. n : ~Deploys(steps[i], c)
      BY <1>2, <2>2
    <3>2. p \notin DOMAIN w
      BY <1>1, <1>2, <3>1, NoContractThere DEF RunSteps
    <3> QED
      BY <2>1, <2>2, <3>2 DEF EntryAt, InstanceEntry
  <2>3. CASE d # {}
    <3> DEFINE a == [i \in last |-> ops[i].args[1]]
               b == [i \in last |-> ops[i].args[2]]
               kept == StoredPairs(a, b, last)
    <3>1. m \in 1 .. n /\ n \in m .. n /\ Deploys(steps[m], c) /\ steps[m].wasmHash = ops[m].wasmHash
      BY <1>1, <1>2, <1>3, <2>3
    <3>2. \A i \in m + 1 .. n : ~Deploys(steps[i], c)
      <4>1. ASSUME NEW i \in m + 1 .. n PROVE ~Deploys(steps[i], c)
        <5>1. i \in 1 .. n /\ ~(i <= m)
          BY <3>1
        <5> QED
          BY <1>2, <1>3, <2>3, <5>1
      <4> QED
        BY <4>1
    <3>3. /\ p \in DOMAIN w
          /\ w[p] = [wasmHash |-> steps[m].wasmHash, storage |-> Kept(steps, c, m, n)]
      <4> HIDE DEF m, d, c, n
      <4>1. \A i \in 1 .. n : IsStep(steps[i])
        BY <1>2
      <4>2. /\ <<"contract", c>> \in DOMAIN WorldsOf(steps)[n]
            /\ WorldsOf(steps)[n][<<"contract", c>>]
                 = [wasmHash |-> steps[m].wasmHash, storage |-> Kept(steps, c, m, n)]
        BY <1>1, <3>1, <3>2, <4>1, ContractThere DEF n
      <4> QED
        BY <4>2 DEF RunSteps, n
    <3>4. stores = StoresBetween(steps, c, m, n)
      <4>1. ASSUME NEW i PROVE i \in stores <=> i \in StoresBetween(steps, c, m, n)
        <5>1. i \in m + 1 .. n <=> i \in 1 .. n /\ i > m
          BY <1>1, <3>1
        <5>2. i \in Calls(ops, c, "instance") => i \in 1 .. n
          BY <1>1 DEF Calls
        <5> QED
          BY <1>2, <5>1, <5>2 DEF StoresBetween
      <4> QED
        BY <4>1
    <3>5. \A i \in stores : /\ i \in 1 .. n /\ i \in Calls(ops, c, "instance")
      BY <1>1 DEF Calls
    <3>6. \A i \in stores : /\ ops[i].args = <<ops[i].args[1], ops[i].args[2]>>
                            /\ ops[i].args[1] \in Storable /\ ops[i].args[2] \in Storable
                            /\ StepKey(steps[i]) = Stored(ops[i].args[1])
                            /\ StepVal(steps[i]) = Stored(ops[i].args[2])
      BY <1>2, <3>5
    <3> HIDE DEF stores
    <3>7. \A i, j \in stores : StepKey(steps[j]) = StepKey(steps[i]) <=> ops[j].args[1] = ops[i].args[1]
      BY <3>6, KeysDoNotCollide
    <3>8. last = LastStores(steps, c, m, n) /\ last \subseteq stores
      BY <3>4, <3>7 DEF LastStores
    <3> HIDE DEF last
    <3>9. \A i \in last : /\ a[i] \in Storable /\ b[i] \in Storable
                          /\ a[i] = ops[i].args[1] /\ b[i] = ops[i].args[2]
                          /\ StepKey(steps[i]) = Stored(a[i]) /\ StepVal(steps[i]) = Stored(b[i])
                          /\ ops[i].args = <<a[i], b[i]>>
      BY <3>6, <3>8
    <3> HIDE DEF a, b
    <3>10. Kept(steps, c, m, n) = kept
      BY <3>8, <3>9 DEF Kept, StoredPairs
    <3> DEFINE payload == InstancePayload(ops[m].wasmHash, kept)
    <3>11. PayloadJson(w, desc) = payload
      <4> DEFINE hash == ops[m].wasmHash
                 stored == w[Place(desc)]
      <4>1. stored = [wasmHash |-> hash, storage |-> kept]
        BY <2>1, <3>1, <3>3, <3>10
      <4>2. desc.kind = "contractInstance"
        OBVIOUS
      <4>3. PayloadJson(w, desc)
              = [wasmHash |-> stored.wasmHash,
                 storage  |-> {<<scVal2JSON[e[1]], scVal2JSON[e[2]]>> : e \in stored.storage}]
        BY <4>2 DEF PayloadJson
      <4> HIDE DEF stored, kept, hash, desc, w
      <4>4. stored.wasmHash = hash /\ stored.storage = kept
        BY <4>1
      <4>5. PayloadJson(w, desc) = InstancePayload(hash, kept)
        BY <4>3, <4>4 DEF InstancePayload
      <4> QED
        BY <4>5 DEF hash
    <3>12. EntryAt(w, k, files) = InstanceData(PayloadJson(w, desc))
      BY <2>1, <3>3 DEF EntryAt, EntryData
    <3>13. InstanceData(payload) = IF \E i \in last : NoForm[a[i]] \/ NoForm[b[i]] THEN Dropped
                                   ELSE <<"instance", ops[m].wasmHash, {<<a[i], b[i]>> : i \in last}>>
      <4> DEFINE hash == ops[m].wasmHash
      <4>1. StorablePairs(a, b, last)
        BY <3>9 DEF StorablePairs
      <4> HIDE DEF hash
      <4>2. StorageComesBack(a, b, last, hash)
        BY <4>1, StorageServed
      <4> QED
        BY ONLY <4>2, Zenon DEF hash, payload, kept, StorageComesBack
    <3>14. InstanceEntry(ops, k) =
             IF \E i \in stores : i \in last /\ (NoForm[ops[i].args[1]] \/ NoForm[ops[i].args[2]])
             THEN Dropped
             ELSE <<"instance", ops[m].wasmHash, {ops[i].args : i \in last}>>
      BY <1>5, <2>3 DEF InstanceEntry, LastOf, stores, last
    <3>15. (\E i \in last : NoForm[a[i]] \/ NoForm[b[i]])
             <=> \E i \in stores : i \in last /\ (NoForm[ops[i].args[1]] \/ NoForm[ops[i].args[2]])
      BY <3>8, <3>9
    <3>16. {<<a[i], b[i]>> : i \in last} = {ops[i].args : i \in last}
      BY <3>9
    <3> HIDE DEF m, payload
    <3> QED
      BY <3>11, <3>12, <3>13, <3>14, <3>15, <3>16
  <2> QED
    BY <2>2, <2>3
<1> QED
  BY <1>4, <1>5

\* The entry of any other key is none.
LEMMA OtherIsExact ==
  ASSUME NEW ops, NEW steps, EncodedAs(ops, steps), NEW k,
         k.type \notin {"ACCOUNT", "CONTRACT_CODE", "CONTRACT_DATA"}, NEW files
  PROVE  EntryAt(RunSteps(steps), k, files) = Dropped
<1>1. Descriptor(k) = UnsupportedKey
  BY DEF Descriptor
<1>2. Place(Descriptor(k)) = <<"nowhere">>
  BY <1>1 DEF Place, UnsupportedKey
<1> QED
  BY <1>2, NothingNowhere DEF EntryAt

\* Every key is served what is due for it.
LEMMA EntryIsExact ==
  ASSUME NEW ops, NEW steps, EncodedAs(ops, steps), CalledWhereDeployed(steps), NEW k,
         Descriptor(k).kind # "raises", Buildable(Descriptor(k)),
         k.type = "CONTRACT_DATA" => k.key \in ScVals \cup {InstanceKey} /\ k.durability # "instance"
  PROVE  EntryAt(RunSteps(steps), k, WasmFiles) = EntryDue(ops, k)
<1>1. CASE k.type = "ACCOUNT"
  BY <1>1, AccountIsExact DEF EntryDue
<1>2. CASE k.type = "CONTRACT_CODE"
  BY <1>2, CodeIsExact DEF EntryDue
<1>3. CASE k.type = "CONTRACT_DATA" /\ k.key = InstanceKey
  <2>1. EntryDue(ops, k) = InstanceEntry(ops, k)
    BY <1>3 DEF EntryDue
  <2> QED
    BY <1>3, <2>1, InstanceIsExact
<1>4. CASE k.type = "CONTRACT_DATA" /\ k.key # InstanceKey
  <2>1. EntryDue(ops, k) = ValueEntry(ops, k)
    BY <1>4 DEF EntryDue
  <2>2. k.key \in ScVals /\ k.durability # "instance"
    BY <1>4
  <2> QED
    BY <1>4, <2>1, <2>2, ValueIsExact
<1>5. CASE k.type \notin {"ACCOUNT", "CONTRACT_CODE", "CONTRACT_DATA"}
  <2>1. EntryDue(ops, k) = Dropped
    BY <1>5 DEF EntryDue
  <2> QED
    BY <1>5, <2>1, OtherIsExact
<1> QED
  BY <1>1, <1>2, <1>3, <1>4, <1>5

-----------------------------------------------------------------------------
(* The response.                                                            *)

\* A key the clients may ask for.
Askable(k) ==
  /\ Descriptor(k).kind # "raises" /\ Buildable(Descriptor(k))
  /\ k.type = "CONTRACT_DATA" => k.key \in ScVals \cup {InstanceKey} /\ k.durability # "instance"

\* A response is what is due for each of its keys, in their order.
LEMMA ResponseIsExact ==
  ASSUME NEW ops, NEW steps, EncodedAs(ops, steps), CalledWhereDeployed(steps),
         NEW Keys, NEW keys \in Seq(Keys), \A k \in Keys : Askable(k), NEW L
  PROVE  FormatResponse(Lookup(RunSteps(steps), keys), L, WasmFiles).entries
           = FlattenSeq([i \in DOMAIN keys |-> Formatted(keys[i], EntryDue(ops, keys[i]), L)])
<1> DEFINE w == RunSteps(steps)
           entry(k) == [key |-> k, kind |-> Descriptor(k).kind,
                        payload |-> PayloadJson(w, Descriptor(k))]
           T == {entry(k) : k \in Keys}
           form(e) == Formatted(e.key, EntryData(e, WasmFiles), L)
           U == {[key |-> e.key, lastModified |-> L, data |-> EntryData(e, WasmFiles)] : e \in T}
           A == [k \in Keys |-> Found(w, k)]
           E == [e \in T |-> form(e)]
           D == [k \in Keys |-> Formatted(k, EntryDue(ops, k), L)]
           items == Lookup(w, keys)
<1>1. ASSUME NEW k \in Keys
      PROVE  /\ A[k] = << >> /\ D[k] = << >>
             \/ /\ entry(k) \in T /\ A[k] = <<entry(k)>> /\ D[k] = form(entry(k))
  <2>1. EntryAt(w, k, WasmFiles) = EntryDue(ops, k)
    BY EntryIsExact DEF Askable
  <2>2. A[k] = Found(w, k) /\ D[k] = Formatted(k, EntryDue(ops, k), L)
    OBVIOUS
  <2>3. entry(k) \in T /\ entry(k).key = k
    OBVIOUS
  <2>4. CASE Place(Descriptor(k)) \in DOMAIN w
    <3>1. A[k] = <<entry(k)>>
      BY <2>2, <2>4 DEF Found
    <3>2. EntryDue(ops, k) = EntryData(entry(k), WasmFiles)
      BY <2>1, <2>4 DEF EntryAt
    <3> QED
      BY <2>2, <2>3, <3>1, <3>2
  <2>5. CASE Place(Descriptor(k)) \notin DOMAIN w
    <3>1. A[k] = << >>
      BY <2>2, <2>5 DEF Found
    <3>2. EntryDue(ops, k) = Dropped
      BY <2>1, <2>5 DEF EntryAt
    <3>3. D[k] = << >>
      BY <2>2, <3>2 DEF Formatted
    <3> QED
      BY <3>1, <3>3
  <2> QED
    BY <2>4, <2>5
<1>2. ASSUME NEW e \in T PROVE form(e) \in Seq(U)
  <2>1. CASE EntryData(e, WasmFiles) = Dropped
    <3>1. form(e) = << >>
      BY <2>1 DEF Formatted
    <3> QED
      BY <3>1
  <2>2. CASE EntryData(e, WasmFiles) # Dropped
    <3> DEFINE x == [key |-> e.key, lastModified |-> L, data |-> EntryData(e, WasmFiles)]
    <3>1. x \in U
      OBVIOUS
    <3>2. form(e) = <<x>>
      BY <2>2 DEF Formatted
    <3> HIDE DEF x, U
    <3> QED
      BY <3>1, <3>2
  <2> QED
    BY <2>1, <2>2
<1>3. items = FlattenSeq(Mapped(A, keys))
  <2>1. \A i \in DOMAIN keys : keys[i] \in Keys
    OBVIOUS
  <2>2. [i \in DOMAIN keys |-> Found(w, keys[i])] = [i \in DOMAIN keys |-> A[keys[i]]]
    BY <2>1
  <2> QED
    BY <2>2 DEF Lookup, Mapped
<1>4. \A e \in T : E[e] = form(e)
  OBVIOUS
<1>5. FlattenSeq([i \in DOMAIN keys |-> Formatted(keys[i], EntryDue(ops, keys[i]), L)])
        = FlattenSeq(Mapped(D, keys))
  <2>1. \A i \in DOMAIN keys : keys[i] \in Keys
    OBVIOUS
  <2>2. [i \in DOMAIN keys |-> Formatted(keys[i], EntryDue(ops, keys[i]), L)]
          = [i \in DOMAIN keys |-> D[keys[i]]]
    BY <2>1
  <2> QED
    BY <2>2 DEF Mapped
<1>6. Maps(E, T, Seq(U))
  BY <1>2, <1>4 DEF Maps
<1>7. FormatResponse(items, L, WasmFiles).entries
        = FlattenSeq([i \in DOMAIN items |-> form(items[i])])
  BY DEF FormatResponse
<1>8. A = [k \in Keys |-> A[k]] /\ D = [k \in Keys |-> D[k]]
  OBVIOUS
<1> HIDE DEF A, D, E, T, U, items, form, entry
<1>9. Maps(A, Keys, Seq(T))
  <2>1. ASSUME NEW k \in Keys PROVE A[k] \in Seq(T)
    <3> DEFINE x == entry(k)
    <3>1. A[k] = << >> \/ (x \in T /\ A[k] = <<x>>)
      BY <1>1
    <3> HIDE DEF x
    <3>2. << >> \in Seq(T) /\ (x \in T => <<x>> \in Seq(T))
      OBVIOUS
    <3> QED
      BY ONLY <3>1, <3>2, Zenon
  <2> QED
    BY <1>8, <2>1 DEF Maps
<1>10. Maps(D, Keys, Seq(U))
  <2>1. ASSUME NEW k \in Keys PROVE D[k] \in Seq(U)
    <3> DEFINE x == entry(k)
    <3>1. D[k] = << >> \/ (x \in T /\ D[k] = form(x))
      BY <1>1
    <3> HIDE DEF x
    <3>2. (x \in T => form(x) \in Seq(U)) /\ << >> \in Seq(U)
      BY <1>2
    <3> QED
      BY ONLY <3>1, <3>2, Zenon
  <2> QED
    BY <1>8, <2>1 DEF Maps
<1>11. ASSUME NEW k \in Keys PROVE FlattenSeq(Mapped(E, A[k])) = D[k]
  <2>1. CASE A[k] = << >> /\ D[k] = << >>
    BY <2>1, MappedEmpty, FlattenEmpty
  <2>2. CASE entry(k) \in T /\ A[k] = <<entry(k)>> /\ D[k] = form(entry(k))
    <3> DEFINE x == entry(k)
               y == E[x]
    <3>1. x \in T /\ y = form(x) /\ y \in Seq(U)
      BY <1>2, <1>4, <2>2
    <3>2. Mapped(E, <<x>>) = <<y>>
      BY DEF Mapped
    <3> HIDE DEF x, y
    <3>3. FlattenSeq(<<y>>) = y
      BY <3>1, FlattenOne
    <3> QED
      BY <2>2, <3>1, <3>2, <3>3 DEF x
  <2> QED
    BY <1>1, <2>1, <2>2
<1>12. FlattenSeq(Mapped(E, FlattenSeq(Mapped(A, keys)))) = FlattenSeq(Mapped(D, keys))
  BY <1>6, <1>9, <1>10, <1>11, Composed
<1>13. items \in Seq(T)
  <2> DEFINE S == Seq(T)
  <2>1. Mapped(A, keys) \in Seq(S)
    BY <1>9, MappedProperties
  <2> QED
    BY <1>3, <2>1, FlattenType
<1>14. [i \in DOMAIN items |-> form(items[i])] = Mapped(E, items)
  <2>1. \A i \in DOMAIN items : items[i] \in T
    BY <1>13
  <2>2. \A i \in DOMAIN items : form(items[i]) = E[items[i]]
    BY <1>4, <2>1
  <2> QED
    BY <2>2 DEF Mapped
<1> QED
  BY <1>3, <1>5, <1>7, <1>12, <1>14 DEF items

-----------------------------------------------------------------------------
(* The steps of the transactions.                                           *)

\* The operations of a transaction are a sequence, of a shape the encoder takes.
LEMMA OpsAreSeqs ==
  ASSUME NEW t \in Tx
  PROVE  /\ Len(Ops[t]) \in Nat /\ DOMAIN Ops[t] = 1 .. Len(Ops[t])
         /\ Ops[t] \in Seq(Range(Ops[t]))
         /\ \A i \in DOMAIN Ops[t] :
              /\ Ops[t][i].type = "invokeContract" => Ops[t][i].args \in ScVals \X ScVals
              /\ Ops[t][i].type = "createContract" => Ops[t][i].address # NoContract
<1>1. /\ Ops[t] \in Seq(Range(Ops[t]))
      /\ \A op \in Range(Ops[t]) :
           /\ op.type = "invokeContract" => op.args \in ScVals \X ScVals
           /\ op.type = "createContract" => op.address # NoContract
  BY OperationsAssumption
<1>2. Len(Ops[t]) \in Nat /\ DOMAIN Ops[t] = 1 .. Len(Ops[t])
  BY <1>1
<1>3. \A i \in DOMAIN Ops[t] : Ops[t][i] \in Range(Ops[t])
  BY DEF Range
<1> QED
  BY <1>1, <1>2, <1>3

\* What the encoder admits, it encodes.
LEMMA EncodedOperation ==
  ASSUME NEW op, EncodeOperation(op) \notin {NoStep, BadStep},
         op.type = "invokeContract" => op.args \in ScVals \X ScVals,
         op.type = "createContract" => op.address # NoContract
  PROVE  Translates(op, EncodeOperation(op))
<1> DEFINE step == EncodeOperation(op)
<1>1. CASE op.type = "createAccount"
  <2>1. step = SetAccount(op)
    BY <1>1 DEF EncodeOperation
  <2>2. XlmToStroops(op.balance) # -1
    BY <2>1 DEF SetAccount
  <2>3. XlmToStroops(op.balance) = op.balance \div TenthsPerStroop
    BY <2>2 DEF XlmToStroops
  <2>4. step = [op |-> "setAccount", account |-> op.account,
                balance |-> op.balance \div TenthsPerStroop]
    BY <2>1, <2>2, <2>3 DEF SetAccount
  <2> HIDE DEF step
  <2>5. step.op = "setAccount" /\ step.account = op.account
        /\ step.balance = op.balance \div TenthsPerStroop
    BY <2>4
  <2> QED
    BY <1>1, <2>5 DEF Encodes, Translates, step
<1>2. CASE op.type = "createContract"
  <2>1. step = DeployContract(op)
    BY <1>2 DEF EncodeOperation
  <2>2. step = [op |-> "deployContract", address |-> op.address, wasmHash |-> op.wasmHash]
    BY <2>1 DEF DeployContract
  <2> HIDE DEF step
  <2>3. step.op = "deployContract" /\ step.address = op.address /\ step.wasmHash = op.wasmHash
    BY <2>2
  <2> QED
    BY <1>2, <2>3 DEF Encodes, Translates, step
<1>3. CASE op.type = "invokeContract"
  <2> DEFINE args == [i \in DOMAIN op.args |-> scval_to_json[op.args[i]]]
  <2>1. step = CallTx(op)
    BY <1>3 DEF EncodeOperation
  <2>2. /\ op.args = <<op.args[1], op.args[2]>> /\ op.args[1] \in ScVals /\ op.args[2] \in ScVals
        /\ DOMAIN op.args = {1, 2}
    BY <1>3
  <2>3. /\ op.to # NoContract /\ \A i \in DOMAIN args : ~Raises(args[i])
        /\ step = [op |-> "callTx", to |-> op.to, func |-> op.func, args |-> args]
    BY <2>1 DEF CallTx
  <2>4. args[1] = scval_to_json[op.args[1]] /\ args[2] = scval_to_json[op.args[2]]
        /\ DOMAIN args = {1, 2}
    BY <2>2
  <2> HIDE DEF args
  <2>5. op.args[1] \in Fine /\ op.args[2] \in Fine
    BY <2>2, <2>3, <2>4 DEF Fine
  <2> HIDE DEF step
  <2>6. step.op = "callTx" /\ step.to = op.to /\ step.func = op.func /\ step.args = args
    BY <2>3
  <2> QED
    BY <1>3, <2>2, <2>3, <2>4, <2>5, <2>6 DEF Translates, step
<1>4. CASE op.type \notin {"createAccount", "createContract", "invokeContract"}
  BY <1>4 DEF EncodeOperation
<1> QED
  BY <1>1, <1>2, <1>3, <1>4

\* The steps of an admitted transaction are its operations, encoded.
LEMMA StepsOfAre ==
  ASSUME NEW t \in Tx
  PROVE  /\ StepsOf[t] \in Seq(Range(StepsOf[t]))
         /\ Admitted(Ops[t]) => TranslatedAs(Ops[t], StepsOf[t])
         /\ t \in Uploads => \A i \in DOMAIN StepsOf[t] : StepsOf[t][i].op = "uploadWasm"
<1> DEFINE ops == Ops[t]
           n == Len(ops)
           steps == StepsOf[t]
           each == [i \in DOMAIN ops |-> EncodeOperation(ops[i])]
           stops == {i \in DOMAIN ops : each[i] \in {NoStep, BadStep}}
           ups == [i \in DOMAIN ops |-> [op |-> "uploadWasm", hash |-> ops[i].hash]]
<1>1. n \in Nat /\ DOMAIN ops = 1 .. n
  BY OpsAreSeqs
<1>2. steps = BuildTxRequest(ops).steps
  BY DEF StepsOf
<1>3. \/ /\ stops = {} /\ BuildTxRequest(ops) = [path |-> "steps", steps |-> each]
      \/ /\ \A i \in DOMAIN ops : ops[i].type = "upload"
         /\ BuildTxRequest(ops) = [path |-> "upload", steps |-> ups]
      \/ BuildTxRequest(ops) = [path |-> "raises", steps |-> << >>]
  BY DEF BuildTxRequest, EncodeSteps, UploadSteps
<1>4. \A f : DOMAIN f = 1 .. n /\ f = [i \in DOMAIN f |-> f[i]] => f \in Seq(Range(f)) /\ Len(f) = n
  <2> TAKE f
  <2> HAVE DOMAIN f = 1 .. n /\ f = [i \in DOMAIN f |-> f[i]]
  <2>1. f \in [1 .. n -> Range(f)]
    BY DEF Range
  <2> QED
    BY <1>1, <2>1, FunctionIsSeq
<1>5. CASE stops = {} /\ BuildTxRequest(ops) = [path |-> "steps", steps |-> each]
  <2>1. steps = each
    BY <1>2, <1>5
  <2>2. each \in Seq(Range(each)) /\ Len(each) = n
    BY <1>1, <1>4
  <2>3. ASSUME NEW i \in 1 .. n PROVE Translates(ops[i], each[i])
    <3>1. each[i] = EncodeOperation(ops[i]) /\ each[i] \notin {NoStep, BadStep}
      BY <1>1, <1>5
    <3> QED
      BY <1>1, <3>1, EncodedOperation, OpsAreSeqs
  <2>4. TranslatedAs(ops, steps)
    BY <1>1, <2>1, <2>2, <2>3 DEF TranslatedAs
  <2>5. t \notin Uploads
    BY <1>5, RpcServerAssumption
  <2> QED
    BY <2>1, <2>2, <2>4, <2>5
<1>6. CASE /\ \A i \in DOMAIN ops : ops[i].type = "upload"
           /\ BuildTxRequest(ops) = [path |-> "upload", steps |-> ups]
  <2>1. steps = ups
    BY <1>2, <1>6
  <2>2. ups \in Seq(Range(ups)) /\ Len(ups) = n
    BY <1>1, <1>4
  <2>3. ASSUME NEW i \in 1 .. n
        PROVE  Translates(ops[i], ups[i]) /\ ups[i].op = "uploadWasm"
    <3>1. ups[i] = [op |-> "uploadWasm", hash |-> ops[i].hash] /\ ops[i].type = "upload"
      BY <1>1, <1>6
    <3> QED
      BY <3>1 DEF Encodes, Translates
  <2>4. TranslatedAs(ops, steps)
    BY <1>1, <2>1, <2>2, <2>3 DEF TranslatedAs
  <2>5. DOMAIN steps = 1 .. n
    BY <1>1, <2>1
  <2> QED
    BY <2>1, <2>2, <2>3, <2>4, <2>5
<1>7. CASE BuildTxRequest(ops) = [path |-> "raises", steps |-> << >>]
  <2>1. steps = << >> /\ ~Admitted(ops)
    BY <1>2, <1>7 DEF Admitted
  <2> QED
    BY <2>1
<1> QED
  BY <1>3, <1>5, <1>6, <1>7

\* All operations and all steps there are.
AllOps   == UNION {Range(Ops[t]) : t \in Tx}
AllSteps == UNION {Range(StepsOf[t]) : t \in Tx}

\* Operations and steps of a transaction are among all there are.
LEMMA MapsOfTx ==
  /\ Maps(StepsOf, Tx, Seq(AllSteps))
  /\ \A t \in Tx : Ops[t] \in Seq(AllOps) /\ StepsOf[t] \in Seq(AllSteps)
<1>1. ASSUME NEW t \in Tx PROVE Ops[t] \in Seq(AllOps) /\ StepsOf[t] \in Seq(AllSteps)
  <2>1. Range(Ops[t]) \subseteq AllOps /\ Range(StepsOf[t]) \subseteq AllSteps
    BY DEF AllOps, AllSteps
  <2>2. Ops[t] \in Seq(Range(Ops[t])) /\ StepsOf[t] \in Seq(Range(StepsOf[t]))
    BY OpsAreSeqs, StepsOfAre
  <2> DEFINE A == Range(Ops[t])
             B == Range(StepsOf[t])
  <2>3. A \subseteq AllOps /\ B \subseteq AllSteps /\ Ops[t] \in Seq(A) /\ StepsOf[t] \in Seq(B)
    BY <2>1, <2>2
  <2> HIDE DEF A, B
  <2> QED
    BY <2>3, SeqOfMore
<1>2. StepsOf = [t \in Tx |-> StepsOf[t]]
  BY DEF StepsOf
<1> QED
  BY <1>1, <1>2 DEF Maps

\* The operations of transactions are translated to their steps.
OpsOfAll(txs) == FlattenSeq([i \in DOMAIN txs |-> Ops[txs[i]]])

\* So are those of a sequence of transactions, one after the other.
LEMMA WorldTranslated ==
  ASSUME NEW txs \in Seq(Tx), \A i \in DOMAIN txs : Admitted(Ops[txs[i]])
  PROVE  TranslatedAs(OpsOfAll(txs), StepsOfAll(txs))
<1> DEFINE K == {t \in Tx : Admitted(Ops[t])}
           A == [t \in K |-> Ops[t]]
           B == [t \in K |-> StepsOf[t]]
           R == {x \in AllOps \X AllSteps : Translates(x[1], x[2])}
           ops == OpsOfAll(txs)
           steps == StepsOfAll(txs)
<1>1. txs \in Seq(K)
  <2>1. Len(txs) \in Nat /\ txs \in [1 .. Len(txs) -> Tx] /\ DOMAIN txs = 1 .. Len(txs)
    OBVIOUS
  <2>2. txs \in [1 .. Len(txs) -> K]
    BY <2>1
  <2> HIDE DEF K
  <2> QED
    BY <2>1, <2>2, FunctionIsSeq
<1>2. Maps(A, K, Seq(AllOps)) /\ Maps(B, K, Seq(AllSteps))
  BY MapsOfTx DEF Maps
<1>3. ASSUME NEW t \in K PROVE Aligned(A[t], B[t], R)
  <2> DEFINE o == Ops[t]
             s == StepsOf[t]
  <2>1. TranslatedAs(o, s) /\ o \in Seq(AllOps) /\ s \in Seq(AllSteps)
    BY StepsOfAre, MapsOfTx
  <2> HIDE DEF o, s
  <2>2. ASSUME NEW i \in 1 .. Len(o) PROVE <<o[i], s[i]>> \in R
    <3> DEFINE x == o[i]
               y == s[i]
    <3>1. x \in AllOps /\ y \in AllSteps /\ Translates(x, y)
      BY <2>1 DEF TranslatedAs
    <3> HIDE DEF x, y
    <3>2. <<x, y>> \in R
      BY <3>1
    <3> QED
      BY <3>2 DEF x, y
  <2>3. Len(o) = Len(s)
    BY <2>1 DEF TranslatedAs
  <2>4. Aligned(o, s, R)
    BY <2>2, <2>3 DEF Aligned
  <2> QED
    BY <2>4 DEF o, s
<1>4. ops = FlattenSeq(Mapped(A, txs)) /\ steps = FlattenSeq(Mapped(B, txs))
  <2>1. \A i \in DOMAIN txs : A[txs[i]] = Ops[txs[i]] /\ B[txs[i]] = StepsOf[txs[i]]
    BY <1>1
  <2>2. [i \in DOMAIN txs |-> Ops[txs[i]]] = [i \in DOMAIN txs |-> A[txs[i]]]
    BY <2>1
  <2>3. [i \in DOMAIN txs |-> StepsOf[txs[i]]] = [i \in DOMAIN txs |-> B[txs[i]]]
    BY <2>1
  <2> QED
    BY <2>2, <2>3 DEF OpsOfAll, StepsOfAll, Mapped
<1> HIDE DEF K, A, B, R
<1>5. Aligned(ops, steps, R)
  BY <1>1, <1>2, <1>3, <1>4, FlattenAligned
<1>6. ops \in Seq(AllOps)
  <2> DEFINE S == Seq(AllOps)
  <2>1. Mapped(A, txs) \in Seq(S)
    BY <1>1, <1>2, MappedProperties
  <2> QED
    BY <1>4, <2>1, FlattenType
<1> HIDE DEF ops, steps
<1>7. \A i \in 1 .. Len(ops) : Translates(ops[i], steps[i])
  <2>1. ASSUME NEW i \in 1 .. Len(ops) PROVE Translates(ops[i], steps[i])
    <3> DEFINE x == <<ops[i], steps[i]>>
    <3>1. x \in R
      BY <1>5 DEF Aligned
    <3>2. Translates(x[1], x[2])
      BY <3>1 DEF R
    <3> QED
      BY <3>2
  <2> QED
    BY <2>1
<1>8. TranslatedAs(ops, steps)
  BY <1>5, <1>6, <1>7 DEF TranslatedAs, Aligned
<1> QED
  BY <1>8 DEF ops, steps

-----------------------------------------------------------------------------
(* Transactions that ran could.                                             *)

\* None of the transactions got stuck, in this order.
Ran(txs) == AllCanRun({}, StepsOfAll(txs))

\* What could run and more that can then could run.
LEMMA RunsOn ==
  ASSUME NEW S, NEW a \in Seq(S), NEW b \in Seq(S),
         AllCanRun({}, a), AllCanRun(Places(a), b)
  PROVE  AllCanRun({}, a \o b)
<1> DEFINE c == a \o b
           m == Len(a)
<1>1. /\ c \in Seq(S) /\ m \in Nat /\ Len(b) \in Nat /\ Len(c) = m + Len(b)
      /\ DOMAIN a = 1 .. m /\ DOMAIN b = 1 .. Len(b) /\ DOMAIN c = 1 .. m + Len(b)
  BY ConcatProperties
<1>2. \A i \in 1 .. m + Len(b) : c[i] = IF i <= m THEN a[i] ELSE b[i - m]
  BY ConcatProperties
<1> HIDE DEF c, m
<1>3. ASSUME NEW i \in DOMAIN c
      PROVE  CanRun({} \cup {Target(c[j]) : j \in 1 .. i - 1}, c[i])
  <2>1. CASE i <= m
    <3>1. i \in DOMAIN a /\ c[i] = a[i] /\ \A j \in 1 .. i - 1 : c[j] = a[j]
      BY <1>1, <1>2, <2>1
    <3>2. {Target(c[j]) : j \in 1 .. i - 1} = {Target(a[j]) : j \in 1 .. i - 1}
      BY <3>1
    <3>3. CanRun({} \cup {Target(a[j]) : j \in 1 .. i - 1}, a[i])
      BY <3>1 DEF AllCanRun
    <3> QED
      BY <3>1, <3>2, <3>3
  <2>2. CASE i > m
    <3> DEFINE k == i - m
               P == {Target(c[j]) : j \in 1 .. i - 1}
               Q == Places(a) \cup {Target(b[j]) : j \in 1 .. k - 1}
    <3>1. k \in DOMAIN b /\ c[i] = b[k]
      BY <1>1, <1>2, <2>2
    <3>2. ASSUME NEW x \in P PROVE x \in Q
      <4>1. PICK j \in 1 .. i - 1 : x = Target(c[j])
        OBVIOUS
      <4>2. CASE j <= m
        <5>1. j \in DOMAIN a /\ c[j] = a[j]
          BY <1>1, <1>2, <4>2
        <5> QED
          BY <4>1, <5>1 DEF Places
      <4>3. CASE j > m
        <5>1. j - m \in 1 .. k - 1 /\ c[j] = b[j - m]
          BY <1>1, <1>2, <4>3
        <5> QED
          BY <4>1, <5>1
      <4> QED
        BY <1>1, <4>2, <4>3
    <3>3. ASSUME NEW x \in Q PROVE x \in P
      <4>1. CASE x \in Places(a)
        <5>1. PICK j \in DOMAIN a : x = Target(a[j])
          BY <4>1 DEF Places
        <5>2. j \in 1 .. i - 1 /\ c[j] = a[j]
          BY <1>1, <1>2, <2>2
        <5> QED
          BY <5>1, <5>2
      <4>2. CASE x \in {Target(b[j]) : j \in 1 .. k - 1}
        <5>1. PICK j \in 1 .. k - 1 : x = Target(b[j])
          BY <4>2
        <5> DEFINE q == j + m
        <5>2. q \in 1 .. i - 1 /\ q \in 1 .. m + Len(b) /\ ~(q <= m) /\ q - m = j
          BY <1>1, <2>2
        <5> HIDE DEF q
        <5>3. c[q] = b[j]
          BY <1>2, <5>2
        <5> QED
          BY <5>1, <5>2, <5>3
      <4> QED
        BY <4>1, <4>2
    <3>4. {} \cup P = Q
      BY <3>2, <3>3
    <3>5. CanRun(Q, b[k])
      BY <3>1 DEF AllCanRun
    <3> HIDE DEF P, Q, k
    <3>6. CanRun({} \cup P, c[i])
      BY <3>1, <3>4, <3>5
    <3> QED
      BY <3>6 DEF P
  <2> QED
    BY <1>1, <2>1, <2>2
<1>4. AllCanRun({}, c)
  BY <1>3 DEF AllCanRun
<1> QED
  BY <1>4 DEF c

\* The places transactions write are those their steps write.
LEMMA PlacesOfAll ==
  ASSUME NEW txs \in Seq(Tx)
  PROVE  /\ StepsOfAll(txs) \in Seq(AllSteps)
         /\ Places(StepsOfAll(txs)) = PlacesOf(txs)
<1> DEFINE s == Mapped(StepsOf, txs)
           S == Seq(AllSteps)
<1>1. StepsOfAll(txs) = FlattenSeq(s)
  BY DEF StepsOfAll, Mapped
<1>2. s \in Seq(S) /\ DOMAIN s = DOMAIN txs /\ \A i \in DOMAIN txs : s[i] = StepsOf[txs[i]]
  <2>1. s \in Seq(S)
    BY MapsOfTx, MappedProperties
  <2> QED
    BY <2>1 DEF Mapped
<1>3. FlattenSeq(s) \in Seq(AllSteps) /\ Range(FlattenSeq(s)) = UNION {Range(s[i]) : i \in DOMAIN s}
  BY <1>2, FlattenType, RangeFlatten
<1> DEFINE f == FlattenSeq(s)
           P == Places(f)
           Q == PlacesOf(txs)
<1> HIDE DEF s
<1>4. ASSUME NEW x \in P PROVE x \in Q
  <2>1. PICK j \in DOMAIN f : x = Target(f[j])
    BY DEF Places
  <2>2. f[j] \in Range(f)
    BY DEF Range
  <2>3. PICK i \in DOMAIN s : f[j] \in Range(s[i])
    BY <1>3, <2>2
  <2>4. PICK k \in DOMAIN s[i] : f[j] = s[i][k]
    BY <2>3 DEF Range
  <2>5. i \in DOMAIN txs /\ s[i] = StepsOf[txs[i]]
    BY <1>2
  <2>6. x \in Places(StepsOf[txs[i]])
    BY <2>1, <2>4, <2>5 DEF Places
  <2> QED
    BY <2>5, <2>6 DEF PlacesOf
<1>5. ASSUME NEW x \in Q PROVE x \in P
  <2>1. PICK i \in DOMAIN txs : x \in Places(StepsOf[txs[i]])
    BY DEF PlacesOf
  <2>2. PICK k \in DOMAIN s[i] : x = Target(s[i][k])
    BY <1>2, <2>1 DEF Places
  <2> HIDE DEF f
  <2>5. i \in DOMAIN s /\ s[i][k] \in Range(s[i])
    BY <1>2 DEF Range
  <2>3. s[i][k] \in Range(f)
    BY <1>3, <2>5 DEF f
  <2>4. PICK j \in DOMAIN f : f[j] = s[i][k]
    BY ONLY <2>3 DEF Range
  <2> QED
    BY <2>2, <2>4 DEF Places
<1>6. P = Q
  BY <1>4, <1>5
<1> QED
  BY <1>1, <1>3, <1>6

\* A transaction that runs after those that ran is one more that ran.
LEMMA RanOneMore ==
  ASSUME NEW txs \in Seq(Tx), Ran(txs), NEW t \in Tx,
         t \in Uploads \/ AllCanRun(PlacesOf(txs), StepsOf[t])
  PROVE  Ran(Append(txs, t))
<1> DEFINE a == StepsOfAll(txs)
           b == StepsOf[t]
           c == StepsOfAll(Append(txs, t))
           s == Mapped(StepsOf, txs)
           S == Seq(AllSteps)
<1>1. a \in Seq(AllSteps) /\ b \in Seq(AllSteps) /\ Places(a) = PlacesOf(txs) /\ b \in S
  BY MapsOfTx, PlacesOfAll
<1>2. c = a \o b
  <2>1. c = FlattenSeq(Mapped(StepsOf, Append(txs, t))) /\ a = FlattenSeq(s)
    BY DEF StepsOfAll, Mapped
  <2>2. s \in Seq(S)
    BY MapsOfTx, MappedProperties
  <2>3. Mapped(StepsOf, Append(txs, t)) = Append(s, b)
    BY MapsOfTx, MappedAppend
  <2> HIDE DEF s, a, b, c
  <2>4. FlattenSeq(Append(s, b)) = FlattenSeq(s) \o b
    BY <1>1, <2>2, FlattenAppend DEF S
  <2> QED
    BY <2>1, <2>3, <2>4
<1>3. AllCanRun(Places(a), b)
  <2>1. CASE t \in Uploads
    <3>1. \A i \in DOMAIN b : b[i].op = "uploadWasm"
      BY <2>1, StepsOfAre
    <3>2. \A w : \A i \in DOMAIN b : CanRun(w, b[i])
      BY <3>1 DEF CanRun
    <3> QED
      BY <3>2 DEF AllCanRun
  <2>2. CASE AllCanRun(PlacesOf(txs), StepsOf[t])
    BY <1>1, <2>2
  <2> QED
    BY <2>1, <2>2
<1>4. AllCanRun({}, a)
  BY DEF Ran
<1> HIDE DEF a, b, c
<1>5. AllCanRun({}, c)
  BY <1>1, <1>2, <1>3, <1>4, RunsOn
<1> QED
  BY <1>5 DEF Ran, c

\* Nothing at all could run.
LEMMA RanNothing == Ran(<< >>)
<1>1. StepsOfAll(<< >>) = << >>
  BY FlattenEmpty DEF StepsOfAll
<1> QED
  BY <1>1 DEF Ran, AllCanRun

\* What ran called contracts only where one is deployed.
LEMMA RanCalledWhereDeployed ==
  ASSUME NEW txs \in Seq(Tx), Ran(txs)
  PROVE  CalledWhereDeployed(StepsOfAll(txs))
<1> DEFINE s == StepsOfAll(txs)
<1>1. DOMAIN s = 1 .. Len(s)
  BY PlacesOfAll
<1>2. ASSUME NEW i \in 1 .. Len(s), s[i].op = "callTx"
      PROVE  <<"contract", s[i].to>> \in {Target(s[j]) : j \in 1 .. i - 1}
  <2>1. CanRun({} \cup {Target(s[j]) : j \in 1 .. i - 1}, s[i])
    BY <1>1 DEF Ran, AllCanRun
  <2> HIDE DEF s
  <2> QED
    BY <1>2, <2>1 DEF CanRun
<1> QED
  BY <1>2 DEF CalledWhereDeployed

\* What ran did as the clients wrote it.
LEMMA RanIsEncoded ==
  ASSUME NEW txs \in Seq(Tx), \A i \in DOMAIN txs : Admitted(Ops[txs[i]]), Ran(txs)
  PROVE  EncodedAs(OpsOfAll(txs), StepsOfAll(txs))
<1> DEFINE s == StepsOfAll(txs)
<1>1. DOMAIN s = 1 .. Len(s)
  BY PlacesOfAll
<1>2. ASSUME NEW i \in 1 .. Len(s) PROVE ArgsDefined(s[i])
  <2>1. CanRun({} \cup {Target(s[j]) : j \in 1 .. i - 1}, s[i])
    BY <1>1 DEF Ran, AllCanRun
  <2> HIDE DEF s
  <2> QED
    BY <2>1 DEF CanRun, ArgsDefined
<1> QED
  BY <1>2, WorldTranslated, TranslatedIsEncoded

-----------------------------------------------------------------------------
(* The invariant.                                                           *)

\* What is in the world, on disk or in memory, could run in the order it did.
RanInv == Ran(World) /\ Ran(config.txs)

\* Ledgers are counted from 1.
CountedInv ==
  /\ pc = "receipt" => latest # 0
  /\ \A t \in DOMAIN receipts : Succeeded(t) => receipts[t].ledger # 0

\* A lookup in flight is of keys that can be looked up; what was found is what
\* the world state holds, which stays as it is until it is served.
AskedInv ==
  /\ pc \notin Booting \cup {"idle"} /\ Call.method = "getLedgerEntries" =>
       KeysOutcome(Call.keys) = "lookup"
  /\ found[1] = "entries" =>
       /\ pc \in {"exit", "persist"} /\ ~Sending /\ KeysBuild
       /\ Call.method = "getLedgerEntries"
       /\ found = <<"entries", Lookup(WorldOf(World), Call.keys), latest>>

EntriesInv == RanInv /\ CountedInv /\ AskedInv

\* Every step keeps RanInv: a commit adds to the world what just ran in it.
LEMMA RanStep ==
  ASSUME NodeInv, RanInv, RpcNext
  PROVE  RanInv'
<1> USE DEF NodeInv, RequestInv, SendOnly, Sending
<1>0. World \in Seq(Tx) /\ config.txs \in Seq(Tx) /\ (Sending => cur.tx \in Tx)
  BY DEF TypeOK, StoreTypeOK, StateKore, Config, World
<1>1. Ran(World) /\ Ran(config.txs) /\ Ran(<< >>)
  BY RanNothing DEF RanInv
<1> SUFFICES /\ World' \in {World, config.txs, << >>}
             /\ \/ config'.txs \in {config.txs, World, << >>}
                \/ Ran(config'.txs)
  BY <1>1 DEF RanInv
<1> USE DEF World
<1>2. CASE StartUp \/ Shutdown \/ ServerDies
  BY <1>2 DEF StartUp, SeedState, SeedWritten, SeedMetadata, ResumeState, Shutdown, Stop,
     ServerDies, Crash, frontVars, storeVars, EmptyConfig, TypeOK, StoreTypeOK, StateKore
<1>3. CASE RejectFrame \/ RejectParams \/ ServeAtOnce \/ SendReply
           \/ \E b \in Bodies : Post(b)
  BY <1>3 DEF RejectFrame, RejectParams, ServeAtOnce, SendReply, Post,
     faultyVars, vars, storeVars, nodeVars
<1>4. CASE SimulateCall
  BY <1>4 DEF SimulateCall, Simulate, SimulationFails
<1>5. CASE CallDies
  BY <1>5 DEF CallDies, InterpreterDies, Reply, storeVars, EmptyConfig
<1>6. CASE Start
  BY <1>6 DEF Start, SubmitTx, SubmitRead, storeVars
<1>7. CASE AnswerRead
  BY <1>7 DEF AnswerRead, DispatchRead
<1>8. CASE Finish
  BY <1>8 DEF Finish, RecordFailure, CloseLedger, PersistState, PrintedState, AttachFails,
     ReadFails, LaunchFails, Reply, EmptyConfig, storeVars
<1>9. CASE Work
  <2>1. CASE Launch
    BY <2>1 DEF Launch
  <2>2. CASE ProgramRuns
    <3>1. cur.tx \in Uploads /\ cur.tx \in Tx /\ config'.txs = Append(config.txs, cur.tx)
          /\ UNCHANGED stateKore
      BY <1>0, <2>2 DEF ProgramRuns, RunOf, storeVars
    <3> QED
      BY <1>0, <1>1, <3>1, RanOneMore
  <2>3. CASE StepsRun /\ Runnable
    <3>1. CASE cur.tx \in Uploads
      BY <2>3, <3>1 DEF StepsRun
    <3>2. CASE cur.tx \notin Uploads
      <4>1. /\ AllCanRun(PlacesOf(config.txs), StepsOf[cur.tx])
            /\ cur.tx \in Tx /\ config'.txs = Append(config.txs, cur.tx)
            /\ UNCHANGED stateKore
        BY <1>0, <2>3, <3>2 DEF StepsRun, Runnable, RunOf
      <4> QED
        BY <1>0, <1>1, <4>1, RanOneMore
    <3> QED
      BY <3>1, <3>2
  <2>4. CASE ProgramStuck \/ DispatchDuplicate \/ ReadStuck \/ OpenTrace \/ StepsStuck
    BY <2>4 DEF ProgramStuck, DispatchDuplicate, ReadStuck, OpenTrace, StepsStuck, Stuck, storeVars,
       TypeOK, Config
  <2>5. CASE WriteMetadata \/ WriteReceipt \/ RespondPending \/ TruncateState
    BY <2>5 DEF WriteMetadata, WriteReceipt, RespondPending, TruncateState,
       TypeOK, StoreTypeOK, StateKore
  <2>6. CASE PersistState /\ cur.method = "sendTransaction"
    BY <2>6 DEF PersistState, PrintedState
  <2>7. CASE DropStaged \/ AttachResult \/ TakeStaged \/ FileEvents \/ StoreWasm
    BY <2>7 DEF DropStaged, AttachResult, TakeStaged, FileEvents, StoreWasm
  <2> QED
    BY <1>9, <2>1, <2>2, <2>3, <2>4, <2>5, <2>6, <2>7 DEF Work
<1> QED
  BY <1>2, <1>3, <1>4, <1>5, <1>6, <1>7, <1>8, <1>9 DEF RpcNext, ServerStep

\* Every step keeps CountedInv.
LEMMA CountedStep ==
  ASSUME NodeInv, CountedInv, RpcNext
  PROVE  CountedInv'
<1> USE DEF NodeInv, RequestInv, CountedInv, Succeeded, HasReceipt
<1>2. CASE StartUp \/ Shutdown \/ ServerDies
  BY <1>2 DEF StartUp, SeedState, SeedWritten, SeedMetadata, ResumeState, Shutdown, Stop,
     ServerDies, Crash, frontVars, storeVars, chainFiles
<1>3. CASE RejectFrame \/ RejectParams \/ ServeAtOnce \/ SendReply
           \/ \E b \in Bodies : Post(b)
  BY <1>3 DEF RejectFrame, RejectParams, ServeAtOnce, SendReply, Post,
     faultyVars, vars, storeVars, nodeVars, chainFiles
<1>4. CASE SimulateCall
  BY <1>4 DEF SimulateCall, Simulate, SimulationFails, chainFiles, AtCall, AtElement
<1>5. CASE CallDies
  BY <1>5 DEF CallDies, InterpreterDies, Reply, storeVars, chainFiles
<1>6. CASE Start
  BY <1>6 DEF Start, SubmitTx, SubmitRead, storeVars, chainFiles
<1>7. CASE AnswerRead
  BY <1>7 DEF AnswerRead, DispatchRead, chainFiles
<1>8. CASE Finish
  <2>1. CASE RecordFailure
    BY <2>1 DEF RecordFailure, Reply, WriteFile, FailedReceipt
  <2>2. CASE CloseLedger \/ PersistState \/ LaunchFails \/ ReadFails
    BY <1>8, <2>2 DEF Finish, CloseLedger, PersistState, LaunchFails, ReadFails, Reply,
       storeVars, chainFiles, AfterPersist
  <2>3. CASE AttachFails
    BY <2>3 DEF AttachFails, Reply, TypeOK, StoreTypeOK
  <2> QED
    BY <1>8, <2>1, <2>2, <2>3 DEF Finish
<1>9. CASE Work
  <2>1. CASE Launch \/ ProgramRuns \/ StepsRun \/ ProgramStuck \/ DispatchDuplicate
             \/ ReadStuck \/ OpenTrace \/ StepsStuck
    BY <2>1 DEF Launch, ProgramRuns, StepsRun, ProgramStuck, DispatchDuplicate, ReadStuck,
       OpenTrace, StepsStuck, Stuck, storeVars, chainFiles
  <2>2. CASE WriteMetadata
    BY <2>2 DEF WriteMetadata, chainFiles, Booting
  <2>3. CASE WriteReceipt
    BY <2>3 DEF WriteReceipt, WriteFile, TxReceipt
  <2>4. CASE RespondPending \/ TruncateState
    BY <2>4 DEF RespondPending, TruncateState, chainFiles
  <2>5. CASE PersistState /\ cur.method = "sendTransaction"
    BY <2>5 DEF PersistState, AfterPersist, chainFiles
  <2>6. CASE AttachResult
    BY <2>6 DEF AttachResult, TypeOK, StoreTypeOK
  <2>7. CASE DropStaged \/ TakeStaged \/ FileEvents \/ StoreWasm
    BY <2>7 DEF DropStaged, TakeStaged, FileEvents, StoreWasm, AfterEvents, chainFiles
  <2> QED
    BY <1>9, <2>1, <2>2, <2>3, <2>4, <2>5, <2>6, <2>7 DEF Work
<1> QED
  BY <1>2, <1>3, <1>4, <1>5, <1>6, <1>7, <1>8, <1>9 DEF RpcNext, ServerStep

\* Every step keeps AskedInv: between the lookup and the answer nothing commits.
LEMMA AskedStep ==
  ASSUME RpcInv, FrontInv, AskedInv, RpcNext
  PROVE  AskedInv'
<1>0. NodeInv /\ RequestInv /\ TypeOK /\ FlightInv
  BY DEF RpcInv, StoreInv, NodeInv
<1>1. CASE Work
  <2>1. /\ UNCHANGED <<cur.method, found, body, position, answers>>
        /\ pc \notin Booting \cup {"idle"}
    BY <1>0, <1>1, WorkGoesOn
  <2>2. Call' = Call /\ Sending' = Sending /\ KeysBuild' = KeysBuild
    BY <2>1 DEF Call, Element, Sending, KeysBuild
  <2>3. Call'.method = "getLedgerEntries" => KeysOutcome(Call'.keys) = "lookup"
    BY <2>1, <2>2 DEF AskedInv
  <2>4. ASSUME found[1] = "entries"
        PROVE  pc' = "persist" /\ UNCHANGED latest /\ World' = World
    <3>1. pc \in {"exit", "persist"} /\ ~Sending
      BY <2>4 DEF AskedInv
    <3>2. TruncateState
      BY <1>0, <1>1, <3>1 DEF Work, Launch, ProgramRuns, ProgramStuck, DispatchDuplicate,
         ReadStuck, OpenTrace, StepsRun, StepsStuck, WriteMetadata, WriteReceipt,
         RespondPending, PersistState, DropStaged, AttachResult, TakeStaged, FileEvents,
         StoreWasm, Sending
    <3> QED
      BY <1>0, <3>2 DEF TruncateState, World, StoreTypeOK, TypeOK, StateKore
  <2>5. found'[1] = "entries" =>
          /\ pc' \in {"exit", "persist"} /\ ~Sending' /\ KeysBuild'
          /\ Call'.method = "getLedgerEntries"
          /\ found' = <<"entries", Lookup(WorldOf(World'), Call'.keys), latest'>>
    BY <2>1, <2>2, <2>4 DEF AskedInv
  <2> QED
    BY <2>3, <2>5 DEF AskedInv
<1>2. CASE AnswerRead
  <2>1. /\ UNCHANGED <<cur, body, position, stateKore, latest>> /\ ~Sending /\ pc = "dispatch"
        /\ pc' = "exit" /\ found' = ReadResult /\ KeysBuild
    BY <1>2 DEF AnswerRead, DispatchRead, Sending
  <2>2. Call' = Call /\ Sending' = Sending /\ World' = World /\ KeysBuild' = KeysBuild
    BY <2>1 DEF Call, Element, Sending, World, KeysBuild
  <2>3. Call.method = "getLedgerEntries" => KeysOutcome(Call.keys) = "lookup"
    BY <2>1 DEF AskedInv, Booting
  <2>4. config.txs = World
    BY <1>0, <2>1 DEF NodeInv, ConfigInv, InjectsProgram, Sending
  <2>5. \/ /\ found' = <<"entries", Lookup(WorldOf(World), Call.keys), latest>>
           /\ Call.method = "getLedgerEntries"
        \/ found'[1] # "entries"
    BY <2>1, <2>4 DEF ReadResult
  <2> QED
    BY <2>1, <2>2, <2>3, <2>5 DEF AskedInv
<1>3. CASE Start
  <2>1. UNCHANGED <<found, body, position>> /\ pc' = "launch" /\ pc = "idle"
    BY <1>3, TakenUp DEF Start, AtCall, AtElement
  <2>2. Call' = Call
    BY <2>1 DEF Call, Element
  <2>3. found[1] # "entries"
    BY <2>1 DEF AskedInv
  <2>4. Call.method = "getLedgerEntries" => KeysOutcome(Call.keys) = "lookup"
    <3> SUFFICES ASSUME Call.method = "getLedgerEntries" PROVE KeysOutcome(Call.keys) = "lookup"
      OBVIOUS
    <3>1. AnswerAtOnce = NotYet
      BY <1>3 DEF Start
    <3>2. Call.valid
      BY <3>1 DEF AnswerAtOnce, NotYet, InvalidParams
    <3>3. AnswerAtOnce = CASE KeysOutcome(Call.keys) = "invalidParams" -> InvalidParams
                           [] KeysOutcome(Call.keys) = "internal" -> InternalError
                           [] OTHER -> NotYet
      BY <3>2 DEF AnswerAtOnce
    <3>4. KeysOutcome(Call.keys) \notin {"invalidParams", "internal"}
      BY <3>1, <3>3 DEF NotYet, InvalidParams, InternalError
    <3> QED
      BY <3>4 DEF KeysOutcome
  <2> QED
    BY <2>1, <2>2, <2>3, <2>4 DEF AskedInv
<1>4. CASE ~Work /\ ~AnswerRead /\ ~Start
  <2>1. cur' = NoRequest
    BY <1>0, <1>4, NothingInFlight
  <2>2. pc' \in Booting \cup {"idle"}
    <3>1. RequestInv'
      BY <1>0, StepsOfTheNode, NextPreservesInv, FaultPreservesInv
         DEF FaultyNext, faultyVars, NodeInv, RpcInv
    <3> QED
      BY <2>1, <3>1 DEF RequestInv, NoRequest
  <2>3. found'[1] # "entries"
    <3>1. CASE pc \in {"exit", "persist"}
      <4>1. found' = NotYet
        BY <1>4, <3>1 DEF RpcNext, ServerStep, StartUp, SeedState, SeedWritten, SeedMetadata,
           ResumeState, RejectFrame, RejectParams, ServeAtOnce, SimulateCall, AtCall, AtElement,
           SendReply, Post, Shutdown, Stop, ServerDies, CallDies, Finish
      <4> QED
        BY <4>1 DEF NotYet
    <3>2. CASE pc \notin {"exit", "persist"}
      <4>1. found[1] # "entries"
        BY <3>2 DEF AskedInv
      <4> QED
        BY <1>0, <1>4, <4>1, NothingInFlight DEF NotYet
    <3> QED
      BY <3>1, <3>2
  <2> QED
    BY <2>2, <2>3 DEF AskedInv
<1> QED
  BY <1>1, <1>2, <1>3, <1>4

\* EntriesInv is invariant, on top of the invariants of module RpcProofs.
LEMMA EntriesInvariance == RpcSpec => [](RpcInv /\ FrontInv /\ EntriesInv)
<1>1. RpcInit => FrontInv /\ EntriesInv
  <2> SUFFICES ASSUME RpcInit PROVE FrontInv /\ EntriesInv
    OBVIOUS
  <2>1. FrontInv
    BY DEF RpcInit, FaultyInit, Init, FrontInv, NoReply, NoBody, Booting
  <2>2. World = << >> /\ config.txs = << >>
    BY DEF RpcInit, FaultyInit, Init, StoreInit, EmptyConfig, World
  <2>3. RanInv
    BY <2>2, RanNothing DEF RanInv
  <2>4. CountedInv /\ AskedInv
    BY DEF RpcInit, FaultyInit, Init, StoreInit, NoFiles, CountedInv, AskedInv, Booting, NotYet
  <2> QED
    BY <2>1, <2>3, <2>4 DEF EntriesInv
<1>2. RpcInv /\ FrontInv /\ EntriesInv /\ [RpcNext]_rpcVars => FrontInv' /\ EntriesInv'
  <2>1. FrontInv /\ UNCHANGED rpcVars => FrontInv'
    BY DEF FrontInv, AnswersFor, Element, rpcVars, frontVars, faultyVars, vars, nodeVars
  <2>2. EntriesInv /\ UNCHANGED rpcVars => EntriesInv'
    BY DEF EntriesInv, RanInv, CountedInv, AskedInv, World, Succeeded, HasReceipt, Call, Element,
       KeysBuild, Sending, rpcVars, frontVars, faultyVars, vars, storeVars, nodeVars, chainFiles
  <2>3. RpcInv => NodeInv
    BY DEF RpcInv, StoreInv
  <2> QED
    BY <2>1, <2>2, <2>3, FrontStep, RanStep, CountedStep, AskedStep DEF EntriesInv
<1> QED
  BY <1>1, <1>2, RpcInvariance, PTL DEF RpcSpec

-----------------------------------------------------------------------------
(* The operations committed up to the latest ledger are those of the world. *)

\* Ledgers are closed in the order of the world, so that the operations of the
\* ledgers, flattened, are those of the world.
LEMMA CommittedAreApplied ==
  ASSUME NodeInv, CountedInv, latest \in Nat
  PROVE  CommittedOps(latest) = OpsOfAll(World)
<1> DEFINE In(n) == {t \in Applied : receipts[t].ledger = n}
           at(n) == IF In(n) = {} THEN << >> ELSE Ops[CHOOSE t \in In(n) : TRUE]
           d == [n \in 1 .. latest |-> at(n)]
           s == [i \in DOMAIN World |-> Ops[World[i]]]
           pos == [i \in 1 .. Len(s) |-> receipts[World[i]].ledger]
           S == Seq(AllOps)
           N == Len(World)
<1>1. World \in Seq(Tx) /\ N \in Nat /\ DOMAIN World = 1 .. N /\ \A i \in 1 .. N : World[i] \in Tx
  BY DEF NodeInv, TypeOK, StoreTypeOK, StateKore, Config, World
<1>2. Applied = {World[i] : i \in 1 .. N}
  BY DEF Applied, World
<1>3. \A i \in 1 .. N : receipts[World[i]].ledger \in 1 .. latest
  <2>1. ASSUME NEW i \in 1 .. N PROVE receipts[World[i]].ledger \in 1 .. latest
    <3> DEFINE t == World[i]
    <3>1. Succeeded(t) /\ receipts[t].ledger <= latest
      BY DEF NodeInv, WorldFollowsLedgers
    <3>2. t \in DOMAIN receipts
      BY <3>1 DEF Succeeded, HasReceipt
    <3> HIDE DEF t
    <3>3. receipts[t].ledger \in Nat
      BY <3>2 DEF NodeInv, TypeOK, StoreTypeOK, Receipt
    <3>4. receipts[t].ledger # 0
      BY <3>1, <3>2 DEF CountedInv
    <3> QED
      BY <3>1, <3>3, <3>4 DEF t
  <2> QED
    BY <2>1
<1>4. \A i, j \in 1 .. N : i < j => receipts[World[i]].ledger < receipts[World[j]].ledger
  BY DEF NodeInv, WorldFollowsLedgers
<1>5. s \in Seq(S) /\ Len(s) = N /\ DOMAIN s = 1 .. N
  <2>1. \A i \in 1 .. N : Ops[World[i]] \in S
    BY <1>1, MapsOfTx
  <2> HIDE DEF S
  <2>2. s \in [1 .. N -> S]
    BY <1>1, <2>1
  <2> QED
    BY <1>1, <2>2, FunctionIsSeq
<1>6. ASSUME NEW i \in 1 .. N PROVE at(receipts[World[i]].ledger) = Ops[World[i]]
  <2> DEFINE n == receipts[World[i]].ledger
             l(t) == receipts[t].ledger
  <2>1. World[i] \in In(n)
    BY <1>2
  <2>2. ASSUME NEW t \in In(n) PROVE t = World[i]
    <3>1. PICK j \in 1 .. N : t = World[j]
      BY <1>2
    <3>2. l(World[j]) = l(World[i])
      BY <3>1
    <3>3. l(World[i]) \in 1 .. latest /\ l(World[j]) \in 1 .. latest
      BY <1>3
    <3>4. ~(i < j) /\ ~(j < i)
      <4>1. (i < j => l(World[i]) < l(World[j])) /\ (j < i => l(World[j]) < l(World[i]))
        BY <1>4
      <4> DEFINE x == l(World[i])
                 y == l(World[j])
      <4>2. x \in Int /\ y = x /\ (i < j => x < y) /\ (j < i => y < x)
        BY <3>2, <3>3, <4>1
      <4> HIDE DEF x, y
      <4> QED
        BY <4>2
    <3>5. i = j
      BY <1>1, <3>4
    <3> QED
      BY <3>1, <3>5
  <2> HIDE DEF In, n
  <2>3. (CHOOSE t \in In(n) : TRUE) = World[i] /\ In(n) # {}
    BY <2>1, <2>2
  <2> QED
    BY <2>3 DEF n
<1>7. ASSUME NEW n \in 1 .. latest PROVE at(n) \in S
  <2>1. CASE In(n) = {}
    BY <2>1
  <2>2. CASE In(n) # {}
    <3> DEFINE t == CHOOSE x \in In(n) : TRUE
    <3>1. t \in In(n)
      BY <2>2
    <3> HIDE DEF t
    <3>2. t \in Tx
      <4>1. t \in Applied
        BY <3>1 DEF In
      <4>2. PICK i \in 1 .. N : t = World[i]
        BY <1>2, <4>1
      <4> QED
        BY <1>1, <4>2
    <3>3. Ops[t] \in S
      BY <3>2, MapsOfTx
    <3> QED
      BY <2>2, <3>3 DEF t
  <2> QED
    BY <2>1, <2>2
<1>8. ASSUME NEW n \in 1 .. latest, \A i \in 1 .. N : receipts[World[i]].ledger # n
      PROVE  at(n) = << >>
  BY <1>2, <1>8
<1> HIDE DEF at, In
<1>9. d \in Seq(S) /\ Len(d) = latest
  <2>1. d \in [1 .. latest -> S]
    BY <1>7
  <2> HIDE DEF S
  <2> QED
    BY <2>1, FunctionIsSeq
<1>10. Spread(s, d, pos)
  <2>1. \A i \in 1 .. N : pos[i] = receipts[World[i]].ledger
    BY <1>5
  <2>2. pos \in [1 .. Len(s) -> 1 .. Len(d)]
    BY <1>3, <1>5, <1>9
  <2>3. \A i, j \in 1 .. Len(s) : i < j => pos[i] < pos[j]
    BY <1>4, <1>5, <2>1
  <2>4. \A i \in 1 .. Len(s) : d[pos[i]] = s[i]
    <3>1. ASSUME NEW i \in 1 .. N PROVE d[pos[i]] = s[i]
      <4> DEFINE n == receipts[World[i]].ledger
      <4>1. n \in 1 .. latest /\ pos[i] = n /\ at(n) = Ops[World[i]]
        BY <1>3, <1>6, <2>1
      <4>2. s[i] = Ops[World[i]]
        BY <1>1
      <4> HIDE DEF n, pos, s
      <4> QED
        BY <4>1, <4>2
    <3> QED
      BY <1>5, <3>1
  <2>5. \A n \in 1 .. Len(d) : (\A i \in 1 .. Len(s) : pos[i] # n) => d[n] = << >>
    BY <1>5, <1>8, <1>9, <2>1
  <2> QED
    BY <2>2, <2>3, <2>4, <2>5 DEF Spread
<1>11. CommittedOps(latest) = FlattenSeq(d)
  BY DEF CommittedOps, at, In
<1>12. OpsOfAll(World) = FlattenSeq(s)
  BY DEF OpsOfAll
<1> HIDE DEF s, d, pos
<1>13. FlattenSeq(s) = FlattenSeq(d)
  BY <1>5, <1>9, <1>10, FlattenSpread DEF S
<1> QED
  BY <1>11, <1>12, <1>13

-----------------------------------------------------------------------------
(* What is served.                                                          *)

\* The keys of a call that can be looked up can be asked for.
LEMMA KeysAreAskable ==
  ASSUME BodyInv, position \in DOMAIN body.elements, KeysOutcome(Call.keys) = "lookup",
         Call.method = "getLedgerEntries", KeysBuild
  PROVE  /\ Call.keys \in Seq(Range(Call.keys))
         /\ \A k \in Range(Call.keys) : Askable(k)
<1>1. body \in Bodies
  BY DEF BodyInv, NoBody
<1>2. Call.keys \in Seq(Range(Call.keys))
  BY <1>1, RpcServerAssumption DEF Call, Element
<1>3. ASSUME NEW k \in Range(Call.keys), k.type = "CONTRACT_DATA"
      PROVE  k.key \in ScVals \cup {InstanceKey} /\ k.durability \in {"persistent", "temporary"}
  BY <1>1, <1>3, OperationsAssumption DEF Call, Element
<1>4. ASSUME NEW k \in Range(Call.keys) PROVE Descriptor(k).kind # "raises"
  <2>1. PICK i \in DOMAIN Call.keys : k = Call.keys[i]
    BY DEF Range
  <2> DEFINE keys == Call.keys
  <2>2. {j \in DOMAIN keys : keys[j].type = "garbage" \/ Descriptor(keys[j]).kind = "raises"} = {}
    BY DEF KeysOutcome
  <2> QED
    BY <2>1, <2>2
<1>5. ASSUME NEW k \in Range(Call.keys) PROVE Buildable(Descriptor(k))
  BY DEF KeysBuild, Range
<1>6. \A k \in Range(Call.keys) : Askable(k)
  BY <1>3, <1>4, <1>5 DEF Askable
<1> QED
  BY <1>2, <1>6

\* What is served of a lookup in flight is exact.
LEMMA ServedIsExact ==
  ASSUME RpcInv, FrontInv, EntriesInv, found[1] = "entries",
         NEW a, a.of = position, a.result = ReadAnswer
  PROVE  Exact(a)
<1> DEFINE keys == Call.keys
           ops == OpsOfAll(World)
           steps == StepsOfAll(World)
           served == FormatResponse(found[2], found[3], WasmFiles)
<1>1. /\ pc \in {"exit", "persist"} /\ KeysOutcome(keys) = "lookup"
      /\ Call.method = "getLedgerEntries" /\ KeysBuild
      /\ found = <<"entries", Lookup(WorldOf(World), keys), latest>>
  BY DEF EntriesInv, AskedInv, Booting
<1>2. position \in DOMAIN body.elements /\ latest \in Nat /\ BodyInv /\ NodeInv
  BY <1>1 DEF FrontInv, RpcInv, StoreInv, NodeInv, RequestInv, Booting
<1>3. World \in Seq(Tx)
  BY <1>2 DEF NodeInv, TypeOK, StoreTypeOK, StateKore, Config, World
<1>4. ASSUME NEW i \in DOMAIN World PROVE Admitted(Ops[World[i]])
  <2>1. i \in 1 .. Len(World)
    BY <1>3
  <2>2. World[i] \in DOMAIN receipts
    BY <1>2, <2>1 DEF NodeInv, WorldFollowsLedgers, Succeeded, HasReceipt
  <2> QED
    BY <2>2 DEF RpcInv, AdmittedInv
<1>5. EncodedAs(ops, steps) /\ CalledWhereDeployed(steps)
  BY <1>3, <1>4, RanIsEncoded, RanCalledWhereDeployed DEF EntriesInv, RanInv
<1>6. found[2] = Lookup(RunSteps(steps), keys) /\ found[3] = latest
  BY <1>1 DEF WorldOf
<1>7. CommittedOps(latest) = ops
  BY <1>2, CommittedAreApplied DEF EntriesInv
<1>8. served.latestLedger = latest
  BY <1>6 DEF FormatResponse
<1>9. served.entries
        = FlattenSeq([i \in DOMAIN keys |-> Formatted(keys[i], EntryDue(ops, keys[i]), latest)])
  <2> DEFINE K == Range(keys)
             L == latest
             w == RunSteps(steps)
  <2>1. keys \in Seq(K) /\ \A k \in K : Askable(k)
    BY <1>1, <1>2, KeysAreAskable
  <2>2. served = FormatResponse(Lookup(w, keys), L, WasmFiles)
    BY <1>6
  <2> HIDE DEF K, keys, ops, steps, served, w, L
  <2>3. FormatResponse(Lookup(RunSteps(steps), keys), L, WasmFiles).entries
          = FlattenSeq([i \in DOMAIN keys |-> Formatted(keys[i], EntryDue(ops, keys[i]), L)])
    BY <1>5, <2>1, ResponseIsExact
  <2> QED
    BY <2>2, <2>3 DEF L, w
<1>10. a.result[2] = served /\ CallOf(a).keys = keys
  BY DEF ReadAnswer, CallOf, Call, Element
<1> HIDE DEF served, ops, keys
<1> QED
  BY <1>7, <1>8, <1>9, <1>10 DEF Exact

\* An answer that is given was served.
LEMMA NewAnswer ==
  ASSUME AnswersInv, NEW r, Serve(r), NEW i \in DOMAIN answers' \ DOMAIN answers
  PROVE  answers'[i].of = position /\ answers'[i].result = r
<1> DEFINE S == {answers[j] : j \in DOMAIN answers}
           a == Answer(Element.id, r)
           s == answers
<1>1. s \in Seq(S)
  BY DEF AnswersInv
<1>2. answers' = Append(s, a)
  BY DEF Serve
<1>3. a.of = position /\ a.result = r
  BY DEF Answer
<1> HIDE DEF S, a, s
<1>4. s \in Seq(S \cup {a}) /\ a \in S \cup {a}
  BY <1>1, SeqOfMore
<1>5. /\ DOMAIN Append(s, a) = 1 .. Len(s) + 1 /\ DOMAIN s = 1 .. Len(s) /\ Len(s) \in Nat
      /\ Append(s, a)[Len(s) + 1] = a
  BY <1>4, AppendProperties
<1>6. i = Len(s) + 1
  BY <1>2, <1>5 DEF s
<1> QED
  BY <1>2, <1>3, <1>5, <1>6

\* Every step answers exactly: only one that ends a lookup answers with entries.
LEMMA EntriesExactStep ==
  ASSUME RpcInv, FrontInv, EntriesInv, [RpcNext]_rpcVars,
         NEW i \in DOMAIN answers' \ DOMAIN answers
  PROVE  Exact(answers'[i])
<1> DEFINE a == answers'[i]
<1>0. AnswersInv
  BY DEF RpcInv
<1>1. CASE Post(body) \/ (\E b \in Bodies : Post(b)) \/ SendReply \/ ServerDies
  <2>1. answers' = << >>
    BY <1>1 DEF Post, SendReply, ServerDies
  <2> QED
    BY <2>1
<1>2. CASE StartUp \/ Start \/ Work \/ AnswerRead \/ Shutdown \/ UNCHANGED rpcVars
  <2>1. answers' = answers
    BY <1>2 DEF StartUp, Start, Work, AnswerRead, Shutdown, frontVars, rpcVars
  <2> QED
    BY <2>1
<1>3. ASSUME NEW r, Serve(r), r[1] # "entries" PROVE Exact(a)
  <2>1. a.result = r
    BY <1>0, <1>3, NewAnswer
  <2> QED
    BY <1>3, <2>1 DEF Exact
<1>4. CASE RejectFrame
  <2> DEFINE S == {answers[j] : j \in DOMAIN answers}
             x == Answer(IF Element.frame = "notObject" THEN NoId ELSE Element.id, InvalidRequest)
  <2>1. answers \in Seq(S) /\ answers' = Append(answers, x)
    BY <1>0, <1>4 DEF AnswersInv, RejectFrame
  <2>2. x.result[1] = "error"
    BY DEF Answer, InvalidRequest
  <2> HIDE DEF S, x
  <2>3. answers \in Seq(S \cup {x}) /\ x \in S \cup {x}
    BY <2>1, SeqOfMore
  <2>4. a = x
    BY <2>1, <2>3, AppendProperties
  <2> HIDE DEF a
  <2> QED
    BY <2>2, <2>4 DEF Exact, a
<1>5. CASE RejectParams \/ CallDies
  BY <1>3, <1>5 DEF RejectParams, CallDies, InvalidParams, InternalError
<1>6. CASE ServeAtOnce
  <2>1. AnswerAtOnce \in {MethodNotFound, InvalidParams, InternalError, <<"simulationError">>,
                          Refused, NotYet, TraceOf(Call.tx)}
    BY DEF AnswerAtOnce, Refused
  <2>2. AnswerAtOnce[1] # "entries"
    BY <2>1 DEF MethodNotFound, InvalidParams, InternalError, Refused, NotYet, TraceOf
  <2> QED
    BY <1>3, <1>6, <2>2 DEF ServeAtOnce
<1>7. CASE SimulateCall
  <2>1. PICK r : Serve(r) /\ (r \in SimulateAnswers(response') \/ r = InternalError)
    BY <1>7 DEF SimulateCall
  <2>2. r[1] # "entries"
    BY <2>1 DEF SimulateAnswers, InternalError
  <2> QED
    BY <1>3, <2>1, <2>2
<1>8. CASE Finish
  <2>1. CASE Serve(<<"status", "PENDING">>) \/ Serve(<<"status", response>>) \/ Serve(InternalError)
    BY <1>3, <2>1 DEF InternalError
  <2>2. CASE Serve(ReadAnswer) /\ found[1] = "entries"
    <3>1. a.of = position /\ a.result = ReadAnswer
      BY <1>0, <2>2, NewAnswer
    <3> HIDE DEF a
    <3>2. Exact(a)
      BY <2>2, <3>1, ServedIsExact
    <3> QED
      BY <3>2 DEF a
  <2>3. CASE Serve(ReadAnswer) /\ found[1] # "entries"
    <3>1. ReadAnswer = found
      BY <2>3 DEF ReadAnswer
    <3> QED
      BY <1>3, <2>3, <3>1
  <2> QED
    BY <1>8, <2>1, <2>2, <2>3 DEF Finish
<1> QED
  BY <1>1, <1>2, <1>4, <1>5, <1>6, <1>7, <1>8 DEF RpcNext, ServerStep

\* What getLedgerEntries serves is, for every key and in the order of the request,
\* what the transactions applied up to its latestLedger made of the entry, as their
\* clients wrote it: whatever the operations, the keys, and the deaths in between.
THEOREM EntriesAreExact == RpcSpec => EntriesExact
<1>1. RpcInv /\ FrontInv /\ EntriesInv /\ [RpcNext]_rpcVars
        => [\A i \in DOMAIN answers' \ DOMAIN answers : Exact(answers'[i])]_rpcVars
  BY EntriesExactStep
<1> QED
  BY <1>1, EntriesInvariance, PTL DEF RpcSpec, EntriesExact

-----------------------------------------------------------------------------
(* The bytes of an upload.                                                  *)

\* A code that was applied and whose bytes are kept is served.
LEMMA KeptCodeIsServed ==
  ASSUME RpcInv, RanInv, NEW t \in Uploads, t \in Applied, t \in wasms,
         NEW hash \in WasmsOf(t)
  PROVE  Serves(hash)
<1> DEFINE ops == OpsOfAll(World)
           steps == StepsOfAll(World)
           k == [type |-> "CONTRACT_CODE", hash |-> hash]
           keys == <<k>>
           p == <<"code", hash>>
           L == latest
           x == [key |-> k, lastModified |-> L, data |-> <<"code", hash>>]
<1>1. World \in Seq(Tx) /\ NodeInv
  BY DEF RpcInv, StoreInv, NodeInv, TypeOK, StoreTypeOK, StateKore, Config, World
<1>2. ASSUME NEW i \in DOMAIN World PROVE Admitted(Ops[World[i]])
  <2>1. i \in 1 .. Len(World)
    BY <1>1
  <2>2. World[i] \in DOMAIN receipts
    BY <1>1, <2>1 DEF NodeInv, WorldFollowsLedgers, Succeeded, HasReceipt
  <2> QED
    BY <2>2 DEF RpcInv, AdmittedInv
<1>3. EncodedAs(ops, steps) /\ CalledWhereDeployed(steps)
  BY <1>1, <1>2, RanIsEncoded, RanCalledWhereDeployed DEF RanInv
<1>4. p \in Places(steps)
  <2>1. PICK j \in DOMAIN World : World[j] = t
    BY <1>1 DEF Applied, World
  <2>2. t \in Tx
    BY <1>1, <2>1
  <2>3. PICK i \in DOMAIN StepsOf[t] : StepsOf[t][i].hash = hash
    BY DEF WasmsOf
  <2>4. StepsOf[t][i].op = "uploadWasm"
    BY <2>2, StepsOfAre
  <2>5. Target(StepsOf[t][i]) = p
    BY <2>3, <2>4 DEF Target
  <2>6. p \in Places(StepsOf[World[j]])
    BY <2>1, <2>5 DEF Places
  <2>7. p \in PlacesOf(World)
    BY <2>1, <2>6 DEF PlacesOf
  <2> QED
    BY <1>1, <2>7, PlacesOfAll
<1>5. \E i \in DOMAIN ops : ops[i].type = "upload" /\ ops[i].hash = hash
  <2>1. PICK i \in DOMAIN steps : Target(steps[i]) = p
    BY <1>4 DEF Places
  <2>2. i \in 1 .. Len(ops) /\ i \in DOMAIN ops
    <3>1. DOMAIN steps = 1 .. Len(steps)
      BY <1>1, PlacesOfAll
    <3> QED
      BY <1>3, <2>1, <3>1 DEF EncodedAs
  <2> DEFINE op == ops[i]
             step == steps[i]
  <2>3. Encodes(op, step) /\ Target(step) = p
    BY <1>3, <2>1, <2>2 DEF EncodedAs
  <2> HIDE DEF op, step
  <2>4. op.type = "upload" /\ <<"code", op.hash>> = p
    BY <2>3, TargetOfOp
  <2> QED
    BY <2>2, <2>4 DEF op
<1>6. hash \in WasmFiles
  BY DEF WasmFiles
<1>7. EntryDue(ops, k) = <<"code", hash>>
  BY <1>5, <1>6 DEF EntryDue, CodeEntry
<1>8. Askable(k)
  BY DEF Askable, Buildable, Descriptor
<1>9. Formatted(k, EntryDue(ops, k), L) = <<x>>
  BY <1>7 DEF Formatted, Dropped
<1> HIDE DEF ops, steps, k, x, L
<1>10. FormatResponse(Lookup(RunSteps(steps), keys), L, WasmFiles).entries
         = FlattenSeq([i \in DOMAIN keys |-> Formatted(keys[i], EntryDue(ops, keys[i]), L)])
  <2> DEFINE K == {k}
  <2>1. keys \in Seq(K) /\ \A q \in K : Askable(q)
    BY <1>8
  <2> HIDE DEF K, keys
  <2> QED
    BY <1>3, <2>1, ResponseIsExact
<1>11. [i \in DOMAIN keys |-> Formatted(keys[i], EntryDue(ops, keys[i]), L)] = << <<x>> >>
  <2> DEFINE y == <<x>>
  <2>1. Formatted(k, EntryDue(ops, k), L) = y
    BY <1>9
  <2> HIDE DEF y
  <2>2. [i \in DOMAIN keys |-> Formatted(keys[i], EntryDue(ops, keys[i]), L)] = <<y>>
    BY <2>1
  <2> QED
    BY <2>2 DEF y
<1>12. FlattenSeq(<< <<x>> >>) = <<x>>
  <2> DEFINE y == <<x>>
  <2>1. y \in Seq({x})
    OBVIOUS
  <2> HIDE DEF y
  <2>2. FlattenSeq(<<y>>) = y
    BY <2>1, FlattenOne
  <2> QED
    BY <2>2 DEF y
<1>13. FormatResponse(Lookup(RunSteps(steps), keys), L, WasmFiles).entries # << >>
  BY <1>10, <1>11, <1>12
<1> QED
  BY <1>13 DEF Serves, WorldOf, steps, k, L

\* A client told that its upload is PENDING, and did not fail, can have the bytes
\* back from every state.kore that can be loaded; so can one told DUPLICATE, if the
\* upload was applied when it was run: whichever server or interpreter died, and when.
THEOREM AckedUploadsAreServed == RpcSpec => []AckedUploadIsServed
<1>1. ASSUME RpcInv, EntriesInv, UploadInv PROVE AckedUploadIsServed
  <2> SUFFICES ASSUME NEW t \in Uploads, Succeeded(t),
                      \/ t \in acked
                      \/ /\ t \in Applied
                         /\ \E i \in DOMAIN answers :
                              answers[i].result \in Decided /\ CallOf(answers[i]).tx = t
               PROVE  \A hash \in WasmsOf(t) : Serves(hash)
    BY DEF AckedUploadIsServed
  <2>1. t \in Applied
    BY <1>1 DEF RpcInv, StoreInv, NodeInv, AckedInv, Failed, Succeeded
  <2>2. Told(t)
    BY DEF Told, Says
  <2>3. t \in wasms
    BY <1>1, <2>2 DEF UploadInv
  <2> QED
    BY <1>1, <2>1, <2>3, KeptCodeIsServed DEF EntriesInv
<1> QED
  BY <1>1, EntriesInvariance, BytesAreKept, PTL
=============================================================================
