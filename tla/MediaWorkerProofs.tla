------------------------- MODULE MediaWorkerProofs --------------------------
(***************************************************************************)
(* Theorems about MediaWorker, for any number of cameras and any limit,    *)
(* when no two calls of reconcile overlap.                                 *)
(***************************************************************************)
EXTENDS MediaWorker, FunctionTheorems, FiniteSetTheorems, SequenceTheorems,
        TLAPS

(* The interval never fires while a reconcile still waits for a query. *)
OneCall == \A r, s \in Call : r = s

(* The camera whose credentials a reconcile waits for has no pipeline. *)
AtHand ==
  \A r \in Call : pc[r] = "credentials" =>
    local[r].todo # << >> /\ pipelines[Head(local[r].todo)] = Nil

WorkerInv == TypeOK /\ RunningIsManaged /\ AtHand

-----------------------------------------------------------------------------
(* What SELECT returns is a sequence of cameras. *)
LEMMA RowsType ==
  ASSUME NEW S \in SUBSET Camera, NEW rows \in Rows(S)
  PROVE  rows \in Seq(Camera)
<1>1. Cardinality(S) \in Nat
  BY WorkerConstants, FS_Subset, FS_CardinalityType
<1>. QED  BY <1>1 DEF Rows

LEMMA WorkerInvInit == Init => WorkerInv
<1>. SUFFICES ASSUME Init PROVE WorkerInv
  OBVIOUS
<1>1. TypeOK
  BY WorkerConstants DEF Init, TypeOK, NoPipelines, AtRest
<1>. QED  BY <1>1 DEF Init, WorkerInv, RunningIsManaged, AtHand

(* The camera loop keeps the invariant if what it starts from is managed.  *)
LEMMA WalkKeepsInv ==
  ASSUME WorkerInv, OneCall, NEW r \in Call,
         NEW todo \in Seq(Camera), NEW active \in SUBSET Camera,
         NEW map \in [Camera -> Pipeline \cup {Nil}],
         NEW live \in SUBSET Pipeline,
         \A p \in live : map[p.camera] = p,
         Walk(r, todo, active, map, live),
         UNCHANGED <<database, phase>>
  PROVE  WorkerInv'
<1>0. UNCHANGED <<enabled, secrets, changes, phase>>
  BY DEF database
<1>. DEFINE seen(n) == active \cup {todo[i] : i \in 1..n}
<1>1. PICK n \in 0..Len(todo) :
        /\ Known(map, todo, n)
        /\ \/ /\ StopInactive(map, live, seen(n))
              /\ pc' = [pc EXCEPT ![r] = "idle"]
              /\ local' = [local EXCEPT ![r] = AtRest]
           \/ /\ n # Len(todo) /\ ~Known(map, todo, n + 1)
              /\ pipelines' = map /\ running' = live
              /\ pc' = [pc EXCEPT ![r] = "credentials"]
              /\ local' = [local EXCEPT ![r] =
                   [todo |-> SubSeq(todo, n + 1, Len(todo)),
                    active |-> seen(n) \cup {todo[n + 1]}]]
  BY DEF Walk
<1>2. seen(n) \subseteq Camera
  OBVIOUS
<1>. HIDE DEF seen
<1>3. CASE /\ StopInactive(map, live, seen(n))
           /\ pc' = [pc EXCEPT ![r] = "idle"]
           /\ local' = [local EXCEPT ![r] = AtRest]
  <2>1. /\ pipelines' \in [Camera -> Pipeline \cup {Nil}]
        /\ running' \subseteq Pipeline
    BY <1>3 DEF StopInactive
  <2>2. local' \in [Call -> [todo : Seq(Camera), active : SUBSET Camera]]
    BY <1>3 DEF WorkerInv, TypeOK, AtRest
  <2>3. TypeOK'
    BY <1>0, <1>3, <2>1, <2>2 DEF WorkerInv, TypeOK
  <2>4. RunningIsManaged'
    <3>. SUFFICES ASSUME NEW p \in running' PROVE pipelines'[p.camera] = p
      BY DEF RunningIsManaged
    <3>1. /\ p \in live /\ p.camera \in Camera /\ map[p.camera] = p
      BY <1>3 DEF StopInactive, Pipeline
    <3>2. p.camera \in seen(n)
      BY <1>3, <3>1 DEF StopInactive
    <3>. QED  BY <1>3, <3>1, <3>2 DEF StopInactive
  <2>5. AtHand'
    BY <1>3 DEF WorkerInv, TypeOK, AtHand, OneCall
  <2>. QED  BY <2>3, <2>4, <2>5 DEF WorkerInv
<1>4. CASE /\ n # Len(todo) /\ ~Known(map, todo, n + 1)
           /\ pipelines' = map /\ running' = live
           /\ pc' = [pc EXCEPT ![r] = "credentials"]
           /\ local' = [local EXCEPT ![r] =
                [todo |-> SubSeq(todo, n + 1, Len(todo)),
                 active |-> seen(n) \cup {todo[n + 1]}]]
  <2>1. n + 1 \in 1..Len(todo) /\ todo[n + 1] \in Camera
    BY <1>4
  <2>2. map[todo[n + 1]] = Nil
    BY <1>1, <1>4, <2>1 DEF Known
  <2>3. /\ SubSeq(todo, n + 1, Len(todo)) \in Seq(Camera)
        /\ SubSeq(todo, n + 1, Len(todo)) # << >>
        /\ Head(SubSeq(todo, n + 1, Len(todo))) = todo[n + 1]
    <3>1. Len(todo) \in (n + 1)..Len(todo)
      BY <2>1
    <3>2. Head(SubSeq(todo, n + 1, Len(todo))) = todo[n + 1]
      BY <2>1, <3>1, HeadTailOfSubSeq
    <3>3. /\ SubSeq(todo, n + 1, Len(todo)) \in Seq(Camera)
          /\ Len(SubSeq(todo, n + 1, Len(todo))) = Len(todo) - n
      <4>1. /\ n + 1 \in Int /\ Len(todo) \in Int
            /\ \A i \in (n + 1)..Len(todo) : todo[i] \in Camera
        OBVIOUS
      <4>. QED  BY <2>1, <4>1, SubSeqProperties
    <3>4. SubSeq(todo, n + 1, Len(todo)) # << >>
      <4>1. Len(todo) - n # 0
        BY <2>1
      <4>2. \A s \in Seq(Camera) : Len(s) # 0 => s # << >>
        OBVIOUS
      <4>. QED  BY <3>3, <4>1, <4>2
    <3>. QED  BY <3>2, <3>3, <3>4
  <2>4. local' \in [Call -> [todo : Seq(Camera), active : SUBSET Camera]]
    BY <1>2, <1>4, <2>1, <2>3 DEF WorkerInv, TypeOK
  <2>5. TypeOK'
    BY <1>0, <1>4, <2>4 DEF WorkerInv, TypeOK
  <2>6. RunningIsManaged'
    BY <1>4 DEF RunningIsManaged
  <2>7. AtHand'
    <3>1. local'[r].todo = SubSeq(todo, n + 1, Len(todo))
      BY <1>4 DEF WorkerInv, TypeOK
    <3>. QED  BY <1>4, <2>2, <2>3, <3>1 DEF AtHand, OneCall
  <2>. QED  BY <2>5, <2>6, <2>7 DEF WorkerInv
<1>. QED  BY <1>1, <1>3, <1>4

(* A pipeline that is started gets the free entry of its camera.           *)
LEMMA StartIsManaged ==
  ASSUME WorkerInv, NEW r \in Call, StartPipeline(r)
  PROVE  LET todo == local[r].todo
             c    == Head(todo)
         IN  /\ Tail(todo) \in Seq(Camera)
             /\ \E map \in [Camera -> Pipeline \cup {Nil}], live \in SUBSET Pipeline :
                  /\ \A q \in live : map[q.camera] = q
                  /\ Walk(r, Tail(todo), local[r].active, map, live)
<1>. DEFINE todo == local[r].todo
            c == Head(todo)
<1>1. /\ todo \in Seq(Camera) /\ todo # << >> /\ pipelines[c] = Nil
      /\ pipelines \in [Camera -> Pipeline \cup {Nil}]
      /\ running \subseteq Pipeline
  BY DEF StartPipeline, WorkerInv, TypeOK, AtHand
<1>2. c \in Camera /\ Tail(todo) \in Seq(Camera)
  BY <1>1
<1>3. PICK p \in Pipeline :
        /\ NewPipeline(c, p)
        /\ Walk(r, Tail(todo), local[r].active,
                [pipelines EXCEPT ![c] = p], running \cup {p})
  BY DEF StartPipeline
<1>. DEFINE map == [pipelines EXCEPT ![c] = p]
            live == running \cup {p}
<1>4. p.camera = c
  BY <1>3 DEF NewPipeline
<1>5. map \in [Camera -> Pipeline \cup {Nil}] /\ live \in SUBSET Pipeline
  BY <1>1, <1>2
<1>6. ASSUME NEW q \in live PROVE map[q.camera] = q
  <2>1. CASE q = p
    BY <1>1, <1>2, <1>4, <2>1
  <2>2. CASE q \in running
    <3>1. q \in Pipeline /\ q.camera \in Camera /\ pipelines[q.camera] = q
      BY <1>1, <2>2 DEF WorkerInv, RunningIsManaged, Pipeline
    <3>2. q.camera # c
      BY <1>1, <3>1, WorkerConstants
    <3>. QED  BY <1>1, <3>1, <3>2
  <2>. QED  BY <2>1, <2>2
<1>7. Walk(r, Tail(todo), local[r].active, map, live)
  BY <1>3
<1>. HIDE DEF map, live
<1>. QED  BY <1>2, <1>5, <1>6, <1>7

LEMMA StartPipelineKeepsInv ==
  ASSUME WorkerInv, OneCall, NEW r \in Call, StartPipeline(r)
  PROVE  WorkerInv'
<1>1. PICK map \in [Camera -> Pipeline \cup {Nil}], live \in SUBSET Pipeline :
        /\ \A q \in live : map[q.camera] = q
        /\ Walk(r, Tail(local[r].todo), local[r].active, map, live)
  BY StartIsManaged
<1>2. Tail(local[r].todo) \in Seq(Camera) /\ local[r].active \in SUBSET Camera
  BY StartIsManaged DEF WorkerInv, TypeOK
<1>3. UNCHANGED <<database, phase>>
  BY DEF StartPipeline
<1>. QED  BY <1>1, <1>2, <1>3, WalkKeepsInv

LEMMA LoadCamerasKeepsInv ==
  ASSUME WorkerInv, OneCall, NEW r \in Call, LoadCameras(r)
  PROVE  WorkerInv'
<1>1. PICK rows \in Rows(enabled) : Walk(r, rows, {}, pipelines, running)
  BY DEF LoadCameras
<1>2. rows \in Seq(Camera)
  BY RowsType DEF WorkerInv, TypeOK
<1>3. UNCHANGED <<database, phase>>
  BY DEF LoadCameras
<1>4. {} \in SUBSET Camera
  OBVIOUS
<1>5. /\ pipelines \in [Camera -> Pipeline \cup {Nil}]
      /\ running \in SUBSET Pipeline
      /\ \A p \in running : pipelines[p.camera] = p
  BY DEF WorkerInv, TypeOK, RunningIsManaged
<1>. QED  BY <1>1, <1>2, <1>3, <1>4, <1>5, WalkKeepsInv

(* A process that has ended runs and manages nothing. *)
LEMMA EndingKeepsInv ==
  ASSUME WorkerInv, ProcessEnds, UNCHANGED database
  PROVE  WorkerInv'
<1>1. TypeOK'
  BY DEF WorkerInv, TypeOK, ProcessEnds, NoPipelines, AtRest, database
<1>. QED
  BY <1>1 DEF WorkerInv, RunningIsManaged, AtHand, ProcessEnds

LEMMA WorkerInvStep ==
  ASSUME WorkerInv, OneCall, [Next]_vars
  PROVE  WorkerInv'
<1>1. ASSUME NEW r \in Call, Poll(r) PROVE WorkerInv'
  <2>1. TypeOK'
    BY <1>1 DEF Poll, WorkerInv, TypeOK, database, memory
  <2>2. RunningIsManaged'
    BY <1>1 DEF Poll, WorkerInv, RunningIsManaged, memory
  <2>3. AtHand'
    BY <1>1 DEF Poll, WorkerInv, TypeOK, AtHand, memory
  <2>. QED  BY <2>1, <2>2, <2>3 DEF WorkerInv
<1>2. ASSUME NEW r \in Call, LoadCameras(r) PROVE WorkerInv'
  BY <1>2, LoadCamerasKeepsInv
<1>3. ASSUME NEW r \in Call, StartPipeline(r) PROVE WorkerInv'
  BY <1>3, StartPipelineKeepsInv
<1>4. ASSUME NEW r \in Call, DecryptThrows(r) \/ QueryFails(r) PROVE WorkerInv'
  BY <1>4, EndingKeepsInv DEF DecryptThrows, QueryFails
<1>5. CASE ShutdownEnds
  BY <1>5, EndingKeepsInv DEF ShutdownEnds
<1>6. CASE Shutdown
  <2>1. TypeOK'
    BY <1>6 DEF Shutdown, WorkerInv, TypeOK, NoPipelines, database
  <2>2. AtHand'
    <3>1. \A r \in Call : pc[r] = "credentials" => Head(local[r].todo) \in Camera
      BY DEF WorkerInv, TypeOK, AtHand
    <3>. QED  BY <1>6, <3>1 DEF Shutdown, WorkerInv, AtHand, NoPipelines
  <2>. QED  BY <1>6, <2>1, <2>2 DEF Shutdown, WorkerInv, RunningIsManaged
<1>7. CASE Launch
  BY <1>7 DEF Launch, WorkerInv, TypeOK, RunningIsManaged, AtHand, database, memory
<1>8. ASSUME NEW c \in Camera, ToggleCamera(c) PROVE WorkerInv'
  BY <1>8, WorkerConstants DEF ToggleCamera, WorkerInv, TypeOK,
     RunningIsManaged, AtHand, memory
<1>9. ASSUME NEW c \in Camera, NEW s \in SecretChoice, ChangeSecret(c, s)
      PROVE  WorkerInv'
  BY <1>9, WorkerConstants DEF ChangeSecret, WorkerInv, TypeOK,
     RunningIsManaged, AtHand, memory
<1>10. CASE UNCHANGED vars
  BY <1>10 DEF vars, WorkerInv, TypeOK, RunningIsManaged, AtHand, database, memory
<1>. QED
  BY <1>1, <1>2, <1>3, <1>4, <1>5, <1>6, <1>7, <1>8, <1>9, <1>10
     DEF Next, Reconcile

(* Whatever happens to cameras, credentials, queries and the process, a    *)
(* reconcile that waits finds the Map as it left it.                       *)
THEOREM WorkerInvariance ==
  ASSUME OneCall
  PROVE  Spec => []WorkerInv
BY WorkerInvInit, WorkerInvStep, PTL DEF Spec

(* The variables keep the types of worker.ts and of the cameras table. *)
THEOREM WorkerTypes ==
  ASSUME OneCall
  PROVE  Spec => []TypeOK
<1>1. WorkerInv => TypeOK
  BY DEF WorkerInv
<1>. QED  BY <1>1, WorkerInvariance, PTL

(* No pipeline runs that the Map does not know under its camera: every one *)
(* can still be stopped, as long as calls of reconcile do not overlap.     *)
THEOREM NothingUnmanaged ==
  ASSUME OneCall
  PROVE  Spec => []RunningIsManaged
<1>1. WorkerInv => RunningIsManaged
  BY DEF WorkerInv
<1>. QED  BY <1>1, WorkerInvariance, PTL

-----------------------------------------------------------------------------
(* A reconcile has marked at most Limit cameras active, and what runs when *)
(* none is under way is what the last one left.                            *)
LimitInv ==
  /\ \A r \in Call : Cardinality(local[r].active) <= Limit
  /\ LimitHoldsAtRest

(* Marking n cameras active adds at most n. *)
LEMMA MarkedAtMost ==
  ASSUME NEW active \in SUBSET Camera, NEW todo \in Seq(Camera),
         NEW n \in 0..Len(todo)
  PROVE  LET seen == active \cup {todo[i] : i \in 1..n}
         IN  IsFiniteSet(seen) /\ Cardinality(seen) <= Cardinality(active) + n
<1>. DEFINE marked == {todo[i] : i \in 1..n}
<1>1. IsFiniteSet(1..n) /\ Cardinality(1..n) = n
  BY FS_Interval
<1>2. IsFiniteSet(marked) /\ Cardinality(marked) <= n
  <2>. DEFINE f == [i \in 1..n |-> todo[i]]
  <2>1. f \in [1..n -> marked] /\ \A c \in marked : \E i \in 1..n : f[i] = c
    OBVIOUS
  <2>. HIDE DEF f, marked
  <2>2. f \in Surjection(1..n, marked)
    BY <2>1, Fun_IsSurj
  <2>. QED  BY <1>1, <2>2, FS_Surjection
<1>3. IsFiniteSet(active)
  BY WorkerConstants, FS_Subset
<1>. HIDE DEF marked
<1>4. /\ IsFiniteSet(active \cup marked)
      /\ Cardinality(active \cup marked)
           = Cardinality(active) + Cardinality(marked)
             - Cardinality(active \cap marked)
  BY <1>2, <1>3, FS_Union
<1>5. /\ Cardinality(active) \in Nat /\ Cardinality(marked) \in Nat
      /\ Cardinality(active \cap marked) \in Nat
  BY <1>2, <1>3, FS_CardinalityType, FS_Intersection
<1>6. Cardinality(active \cup marked) <= Cardinality(active) + n
  BY <1>2, <1>4, <1>5
<1>. QED  BY <1>4, <1>6 DEF marked

(* The camera loop marks no more cameras than the limit allows and, when   *)
(* it ends, leaves no other pipelines than theirs.                         *)
LEMMA WalkKeepsLimit ==
  ASSUME TypeOK, LimitInv, OneCall, NEW r \in Call,
         NEW todo \in Seq(Camera), NEW active \in SUBSET Camera,
         Cardinality(active) <= Limit,
         NEW map, NEW live \in SUBSET Pipeline,
         \A p \in live : map[p.camera] = p,
         Walk(r, todo, active, map, live)
  PROVE  LimitInv'
<1>. DEFINE seen(n) == active \cup {todo[i] : i \in 1..n}
            room == IF Limit > Cardinality(active)
                    THEN Limit - Cardinality(active) ELSE 0
<1>1. PICK n \in 0..Len(todo) :
        /\ n <= room
        /\ \/ /\ StopInactive(map, live, seen(n))
              /\ pc' = [pc EXCEPT ![r] = "idle"]
              /\ local' = [local EXCEPT ![r] = AtRest]
           \/ /\ n # Len(todo) /\ n # room
              /\ pc' = [pc EXCEPT ![r] = "credentials"]
              /\ local' = [local EXCEPT ![r] =
                   [todo |-> SubSeq(todo, n + 1, Len(todo)),
                    active |-> seen(n) \cup {todo[n + 1]}]]
  BY DEF Walk
<1>2. IsFiniteSet(active) /\ Cardinality(active) \in Nat /\ Limit \in Nat
  BY WorkerConstants, FS_Subset, FS_CardinalityType
<1>3. IsFiniteSet(seen(n)) /\ Cardinality(seen(n)) <= Cardinality(active) + n
  BY MarkedAtMost
<1>4. Cardinality(seen(n)) \in Nat
  BY <1>3, FS_CardinalityType
<1>5. Cardinality(active) + n <= Limit
  BY <1>1, <1>2
<1>6. Cardinality(seen(n)) <= Limit
  BY <1>2, <1>3, <1>4, <1>5
<1>. HIDE DEF seen
<1>7. CASE /\ StopInactive(map, live, seen(n))
           /\ pc' = [pc EXCEPT ![r] = "idle"]
           /\ local' = [local EXCEPT ![r] = AtRest]
  <2>. DEFINE f == [p \in running' |-> p.camera]
  <2>1. ASSUME NEW p \in running'
        PROVE  p.camera \in seen(n) /\ map[p.camera] = p
    <3>1. p \in live /\ p.camera \in Camera /\ map[p.camera] = p
      BY <1>7 DEF StopInactive, Pipeline
    <3>. QED  BY <1>7, <3>1 DEF StopInactive
  <2>2. /\ f \in [running' -> seen(n)]
        /\ \A p, q \in running' : f[p] = f[q] => p = q
    BY <2>1
  <2>. HIDE DEF f
  <2>3. f \in Injection(running', seen(n))
    BY <2>2, Fun_IsInj
  <2>4. Cardinality(running') <= Limit
    <3>1. IsFiniteSet(running') /\ Cardinality(running') <= Cardinality(seen(n))
      BY <1>3, <2>3, FS_Injection
    <3>2. Cardinality(running') \in Nat
      BY <3>1, FS_CardinalityType
    <3>. QED  BY <1>2, <1>4, <1>6, <3>1, <3>2
  <2>5. local'[r].active = {} /\ Cardinality({}) = 0
    BY <1>7, FS_EmptySet DEF TypeOK, AtRest
  <2>6. \A s \in Call : s = r
    BY DEF OneCall
  <2>7. 0 <= Limit
    BY <1>2
  <2>. QED  BY <2>4, <2>5, <2>6, <2>7 DEF LimitInv, LimitHoldsAtRest
<1>8. CASE /\ n # Len(todo) /\ n # room
           /\ pc' = [pc EXCEPT ![r] = "credentials"]
           /\ local' = [local EXCEPT ![r] =
                [todo |-> SubSeq(todo, n + 1, Len(todo)),
                 active |-> seen(n) \cup {todo[n + 1]}]]
  <2>1. Cardinality(seen(n)) + 1 <= Limit
    <3>1. n < room
      BY <1>1, <1>2, <1>8, SMTT(30)
    <3>2. Cardinality(active) + n + 1 <= Limit
      BY <1>2, <3>1
    <3>. QED  BY <1>2, <1>3, <1>4, <3>2
  <2>2. Cardinality(seen(n) \cup {todo[n + 1]})
          = IF todo[n + 1] \in seen(n) THEN Cardinality(seen(n))
            ELSE Cardinality(seen(n)) + 1
    BY <1>3, FS_AddElement
  <2>5. Cardinality(seen(n) \cup {todo[n + 1]}) <= Limit
    BY <1>2, <1>4, <1>6, <2>1, <2>2
  <2>6. /\ local'[r].active = seen(n) \cup {todo[n + 1]}
        /\ pc'[r] = "credentials"
    BY <1>8 DEF TypeOK
  <2>. QED  BY <2>5, <2>6 DEF LimitInv, LimitHoldsAtRest, OneCall
<1>. HIDE DEF room
<1>. QED  BY <1>1, <1>7, <1>8

LEMMA LimitInvInit == Init => LimitInv
<1>. SUFFICES ASSUME Init PROVE LimitInv
  OBVIOUS
<1>1. Cardinality({}) = 0 /\ 0 <= Limit
  BY FS_EmptySet, WorkerConstants
<1>2. \A r \in Call : local[r].active = {}
  BY DEF Init, AtRest
<1>. QED
  BY <1>1, <1>2 DEF Init, LimitInv, LimitHoldsAtRest

LEMMA LimitInvStep ==
  ASSUME WorkerInv, LimitInv, OneCall, [Next]_vars
  PROVE  LimitInv'
<1>1. ASSUME NEW r \in Call, LoadCameras(r) PROVE LimitInv'
  <2>1. PICK rows \in Rows(enabled) : Walk(r, rows, {}, pipelines, running)
    BY <1>1 DEF LoadCameras
  <2>2. rows \in Seq(Camera)
    BY RowsType DEF WorkerInv, TypeOK
  <2>3. {} \in SUBSET Camera /\ Cardinality({}) <= Limit
    BY FS_EmptySet, WorkerConstants
  <2>4. TypeOK /\ running \in SUBSET Pipeline /\ \A p \in running : pipelines[p.camera] = p
    BY DEF WorkerInv, TypeOK, RunningIsManaged
  <2>. QED  BY <2>1, <2>2, <2>3, <2>4, WalkKeepsLimit
<1>2. ASSUME NEW r \in Call, StartPipeline(r) PROVE LimitInv'
  <2>1. PICK map \in [Camera -> Pipeline \cup {Nil}], live \in SUBSET Pipeline :
          /\ \A q \in live : map[q.camera] = q
          /\ Walk(r, Tail(local[r].todo), local[r].active, map, live)
    BY <1>2, StartIsManaged
  <2>2. /\ TypeOK /\ local[r].active \in SUBSET Camera
        /\ Cardinality(local[r].active) <= Limit /\ Tail(local[r].todo) \in Seq(Camera)
    BY <1>2, StartIsManaged DEF WorkerInv, TypeOK, LimitInv
  <2>. QED  BY <2>1, <2>2, WalkKeepsLimit
<1>3. ASSUME ProcessEnds PROVE LimitInv'
  <2>1. Cardinality({}) = 0 /\ 0 <= Limit
    BY FS_EmptySet, WorkerConstants
  <2>2. running' = {} /\ \A r \in Call : local'[r].active = {}
    BY <1>3 DEF ProcessEnds, AtRest
  <2>. QED  BY <2>1, <2>2 DEF LimitInv, LimitHoldsAtRest
<1>4. CASE Shutdown
  <2>1. Cardinality({}) = 0 /\ 0 <= Limit
    BY FS_EmptySet, WorkerConstants
  <2>. QED  BY <1>4, <2>1 DEF Shutdown, LimitInv, LimitHoldsAtRest
<1>5. ASSUME NEW r \in Call, Poll(r) PROVE LimitInv'
  <2>1. pc'[r] = "load"
    BY <1>5 DEF Poll, WorkerInv, TypeOK
  <2>. QED  BY <1>5, <2>1 DEF Poll, LimitInv, LimitHoldsAtRest, memory
<1>6. ASSUME UNCHANGED <<running, pc, local>> PROVE LimitInv'
  BY <1>6 DEF LimitInv, LimitHoldsAtRest
<1>. QED
  BY <1>1, <1>2, <1>3, <1>4, <1>5, <1>6
     DEF Next, Reconcile, DecryptThrows, QueryFails, ShutdownEnds, Launch,
         ToggleCamera, ChangeSecret, vars, memory

(* Between two reconciles no more pipelines run than the limit, whatever   *)
(* was enabled, disabled, restarted or refused before.                     *)
THEOREM LimitRespected ==
  ASSUME OneCall
  PROVE  Spec => []LimitHoldsAtRest
<1>1. WorkerInv /\ LimitInv /\ [Next]_vars => LimitInv'
  BY LimitInvStep
<1>2. LimitInv => LimitHoldsAtRest
  BY DEF LimitInv
<1>. QED
  BY <1>1, <1>2, LimitInvInit, WorkerInvariance, PTL DEF Spec
=============================================================================
