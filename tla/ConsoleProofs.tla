---------------------------- MODULE ConsoleProofs ----------------------------
(***************************************************************************)
(* Proofs about the TinyUSB stack's life and the console on it, for any    *)
(* number of installing tasks and installations and any sizes of the       *)
(* console's buffers.                                                      *)
(*                                                                         *)
(* That one task serves the host at a time is a matter of two hand-overs   *)
(* (StackInv).  Coming up: whoever set the flag _task_is_running passes it *)
(* to the task it creates, which keeps it until it publishes its context   *)
(* or gives up; while it is about there is no context, so nobody else can  *)
(* start.  Going down: the caller that took the context keeps the stack    *)
(* initialised until its task is gone, so a task that is started meanwhile *)
(* gives up.                                                               *)
(***************************************************************************)
EXTENDS Console, SequenceTheorems, TLAPS

-----------------------------------------------------------------------------
(* One stack at a time. *)

Coming == {"begin", "set", "init", "publish", "del"}
Up == {"notify", "loop"}
Stops(c) == call[c].at \in {"delete", "teardown"}

\* Bringing the stack up.
StartInv ==
    /\ \A n \in Installs : n > started => task[n] = "none"
    /\ \A n \in Installs : task[n] \in Coming => isRunning /\ ctx = 0
    /\ \A c \in Callers : At(c, "create") => isRunning /\ ctx = 0
    /\ \A m, n \in Installs : task[m] \in Coming /\ task[n] \in Coming => m = n
    /\ \A c, d \in Callers : At(c, "create") /\ At(d, "create") => c = d
    /\ \A c \in Callers, n \in Installs : At(c, "create") => task[n] \notin Coming

\* The stack up, and taking it down.
ServeInv ==
    /\ \A m, n \in Installs : task[m] \in Up /\ task[n] \in Up => m = n
    /\ \A n \in Installs :
          /\ task[n] \in Up => inited
          /\ task[n] \in {"set", "init"} => ~inited
          /\ task[n] = "publish" => inited /\ \A m \in Installs : task[m] \notin Up
          /\ task[n] \in Up \cup {"init", "publish"} => desc = n
    /\ ctx # 0 => task[ctx] \in Up /\ \A c \in Callers : ~Stops(c)
    /\ \A c, d \in Callers : Stops(c) /\ Stops(d) => c = d
    /\ \A c \in Callers :
          /\ At(c, "delete") => call[c].n \in Installs /\ task[call[c].n] \in Up
          /\ At(c, "teardown") =>
                inited /\ \A n \in Installs : task[n] \notin Up \cup {"publish"}

StackInv == StackTypeOK /\ StartInv /\ ServeInv

\* The hand-overs leave at most one task that touches the stack.
LEMMA StackInvMeans == StackInv => OneStack
    BY DEF StackInv, StackTypeOK, StartInv, ServeInv, OneStack, Described, Coming, Up

\* The stack is down and nobody calls.
LEMMA StackInitInv == StackInit => StackInv
<1> SUFFICES ASSUME StackInit PROVE StackInv
    OBVIOUS
<1>1. 0 \in 0 .. MaxInstalls
    BY UsbStackAssumption
<1>2. StackTypeOK
    BY <1>1 DEF StackInit, StackTypeOK, NoCall, Calls
<1>3. \A n \in Installs : task[n] = "none"
    BY DEF StackInit
<1>4. \A c \in Callers : call[c] = NoCall
    BY DEF StackInit
<1>5. StartInv
    BY <1>3, <1>4 DEF StartInv, At, NoCall, Coming
<1>6. ServeInv
    BY <1>3, <1>4 DEF StackInit, ServeInv, At, NoCall, Up, Stops
<1> QED BY <1>2, <1>5, <1>6 DEF StackInv

\* What a caller's next step does to where each caller is.
LEMMA GotoMoves ==
    ASSUME StackTypeOK, NEW c \in Callers, NEW where, Goto(c, where)
    PROVE  /\ \A d \in Callers :
                 /\ call'[d].n = call[d].n /\ call'[d].phy = call[d].phy
                 /\ call'[d].at = IF d = c THEN where ELSE call[d].at
           /\ where \in {"create", "del_phy", "teardown", "phy"} =>
                 call' \in [Callers -> Calls]
    BY DEF StackTypeOK, Goto, Calls

\* A caller that begins or ends a call is where it is put.
LEMMA CallMoves ==
    ASSUME StackTypeOK, NEW c \in Callers, NEW r, call' = [call EXCEPT ![c] = r]
    PROVE  /\ \A d \in Callers : call'[d] = IF d = c THEN r ELSE call[d]
           /\ r \in Calls => call' \in [Callers -> Calls]
    BY DEF StackTypeOK

\* What a step of a task does to where each task is.
LEMMA TaskMoves ==
    ASSUME StackTypeOK, NEW n \in Installs, NEW where, task' = [task EXCEPT ![n] = where]
    PROVE  \A m \in Installs : task'[m] = IF m = n THEN where ELSE task[m]
    BY DEF StackTypeOK

\* Every step keeps the stack's variables in their types.
LEMMA StackTypes ==
    ASSUME StackTypeOK, [StackNext]_stackVars
    PROVE  StackTypeOK'
<1> USE UsbStackAssumption DEF StackTypeOK, Installs
<1>a. NoCall \in Calls
    BY DEF NoCall, Calls
<1>0. CASE UNCHANGED stackVars
    BY <1>0 DEF stackVars
<1>1. ASSUME NEW c \in Callers, Install(c) PROVE StackTypeOK'
    BY <1>1 DEF Install, Calls
<1>2. ASSUME NEW c \in Callers, Start(c) PROVE StackTypeOK'
  <2>1. call' \in [Callers -> Calls]
    BY <1>2, GotoMoves DEF Start
  <2>2. isRunning' \in BOOLEAN
    BY <1>2 DEF Start
  <2> QED BY <1>2, <2>1, <2>2 DEF Start
<1>3. ASSUME NEW c \in Callers, Create(c) PROVE StackTypeOK'
  <2>1. CASE Goto(c, "del_phy") /\ UNCHANGED <<started, task>>
    BY <1>3, <2>1 DEF Create, Goto, Calls
  <2>2. CASE ~(Goto(c, "del_phy") /\ UNCHANGED <<started, task>>)
    <3>1. /\ started < MaxInstalls /\ started' = started + 1
          /\ task' = [task EXCEPT ![started + 1] = "begin"]
          /\ call' = [call EXCEPT ![c].at = "wait", ![c].n = started + 1]
          /\ UNCHANGED <<isRunning, ctx, inited, desc, phy, phyHdl>>
      BY <1>3, <2>2 DEF Create
    <3>2. started + 1 \in 0 .. MaxInstalls
      BY <3>1
    <3>3. call' \in [Callers -> Calls]
      BY <3>1, <3>2 DEF Calls
    <3> QED BY <3>1, <3>2, <3>3
  <2> QED BY <2>1, <2>2
<1>4. ASSUME NEW c \in Callers, TimedOut(c) PROVE StackTypeOK'
    BY <1>4 DEF TimedOut, Goto, Calls
<1>5. ASSUME NEW c \in Callers, Save(c) PROVE StackTypeOK'
    BY <1>5 DEF Save, NoCall, Calls
<1>6. ASSUME NEW c \in Callers, DelPhy(c) PROVE StackTypeOK'
    BY <1>6 DEF DelPhy, NoCall, Calls
<1>7. ASSUME NEW c \in Callers, StopTake(c) PROVE StackTypeOK'
  <2>1. [at |-> "delete", n |-> ctx, phy |-> FALSE] \in Calls
    BY DEF Calls
  <2>2. call' \in [Callers -> Calls]
    BY <1>7, <2>1, CallMoves DEF StopTake
  <2>3. /\ ctx' = 0 /\ isRunning' = FALSE /\ 0 \in 0 .. MaxInstalls
        /\ UNCHANGED <<task, started, inited, desc, phy, phyHdl>>
    BY <1>7 DEF StopTake
  <2> QED BY <2>2, <2>3
<1>8. ASSUME NEW c \in Callers, StopDelete(c) PROVE StackTypeOK'
    BY <1>8 DEF StopDelete, Goto, Calls
<1>9. ASSUME NEW c \in Callers, StopTeardown(c) PROVE StackTypeOK'
  <2>1. call' \in [Callers -> Calls]
    BY <1>9, <1>a, GotoMoves, CallMoves DEF StopTeardown
  <2> QED BY <1>9, <2>1 DEF StopTeardown
<1>10. ASSUME NEW c \in Callers, StopPhy(c) PROVE StackTypeOK'
  <2>1. call' \in [Callers -> Calls]
    BY <1>10, <1>a, CallMoves DEF StopPhy
  <2>2. phy' \in BOOLEAN /\ phyHdl' \in BOOLEAN
    BY <1>10 DEF StopPhy
  <2> QED BY <1>10, <2>1, <2>2 DEF StopPhy
<1>11. ASSUME NEW n \in Installs, CheckInited(n) PROVE StackTypeOK'
    BY <1>11 DEF CheckInited, Step
<1>12. ASSUME NEW n \in Installs, DescriptorsSet(n) PROVE StackTypeOK'
    BY <1>12 DEF DescriptorsSet, Step
<1>13. ASSUME NEW n \in Installs, RhportInit(n) PROVE StackTypeOK'
    BY <1>13 DEF RhportInit, Step
<1>14. ASSUME NEW n \in Installs, GiveUp(n) PROVE StackTypeOK'
    BY <1>14 DEF GiveUp, Step
<1>15. ASSUME NEW n \in Installs, Publish(n) PROVE StackTypeOK'
    BY <1>15 DEF Publish, Step
<1>16. ASSUME NEW n \in Installs, Notify(n) PROVE StackTypeOK'
    BY <1>16 DEF Notify, Step, Calls
<1> QED BY <1>0, <1>1, <1>2, <1>3, <1>4, <1>5, <1>6, <1>7, <1>8, <1>9, <1>10, <1>11,
           <1>12, <1>13, <1>14, <1>15, <1>16 DEF StackNext

\* Every step of a caller or a task makes or leaves a hand-over as it must be.
LEMMA StackStep ==
    ASSUME StackInv, [StackNext]_stackVars
    PROVE  StackInv'
<1> USE DEF StackInv, Coming, Up, Stops, At
<1>a. StackTypeOK'
    BY StackTypes
<1>b. /\ ctx \in 0 .. MaxInstalls /\ started \in 0 .. MaxInstalls /\ MaxInstalls \in Nat
      /\ \A c \in Callers : call[c].n \in 0 .. MaxInstalls
    BY UsbStackAssumption DEF StackTypeOK, Calls
<1>c. ctx # 0 => ctx \in Installs
    BY <1>b DEF Installs
<1>0. CASE UNCHANGED stackVars
    BY <1>0, <1>a DEF stackVars, StartInv, ServeInv
\* Steps that only move a caller between places that hold nothing.
<1>d. ASSUME UNCHANGED <<task, started, inited, desc>>,
             isRunning' = isRunning, ctx' = ctx,
             \A c \in Callers : call'[c].at \in {"create", "delete", "teardown"} =>
                 call'[c].at = call[c].at /\ call'[c].n = call[c].n
      PROVE  StackInv'
  <2>1. StartInv'
    BY <1>d DEF StartInv
  <2>2. ServeInv'
    BY <1>d DEF ServeInv
  <2> QED BY <1>a, <2>1, <2>2
<1>1. ASSUME NEW c \in Callers, Install(c) PROVE StackInv'
  <2>1. PICK skip \in BOOLEAN :
           call' = [call EXCEPT ![c] = [at |-> "start", n |-> 0, phy |-> ~skip]]
    BY <1>1 DEF Install
  <2>2. \A d \in Callers :
           call'[d] = IF d = c THEN [at |-> "start", n |-> 0, phy |-> ~skip] ELSE call[d]
    BY <2>1, CallMoves
  <2>3. call'[c].at = "start"
    BY <2>2
  <2> QED BY <1>1, <1>d, <2>2, <2>3 DEF Install
<1>2. ASSUME NEW c \in Callers, Start(c) PROVE StackInv'
  <2>1. CASE Startable
    <3>1. /\ ctx = 0 /\ ~isRunning /\ isRunning' = TRUE /\ Goto(c, "create")
          /\ UNCHANGED <<ctx, task, started, inited, desc>>
      BY <1>2, <2>1 DEF Start, Startable
    <3>2. \A d \in Callers : /\ call'[d].n = call[d].n
                             /\ call'[d].at = IF d = c THEN "create" ELSE call[d].at
      BY <3>1, GotoMoves
    <3>3. StartInv'
      BY <3>1, <3>2 DEF StartInv
    <3>4. ServeInv'
      BY <3>1, <3>2 DEF ServeInv
    <3> QED BY <1>a, <3>3, <3>4
  <2>2. CASE ~Startable
    <3>1. Goto(c, "del_phy") /\ UNCHANGED <<isRunning, ctx, task, started, inited, desc>>
      BY <1>2, <2>2 DEF Start
    <3>2. \A d \in Callers : /\ call'[d].n = call[d].n
                             /\ call'[d].at = IF d = c THEN "del_phy" ELSE call[d].at
      BY <3>1, GotoMoves
    <3> QED BY <1>d, <3>1, <3>2
  <2> QED BY <2>1, <2>2
<1>3. ASSUME NEW c \in Callers, Create(c) PROVE StackInv'
  <2>0. At(c, "create") /\ UNCHANGED <<isRunning, ctx, inited, desc>>
    BY <1>3 DEF Create
  <2>1. CASE Goto(c, "del_phy") /\ UNCHANGED <<started, task>>
    <3>1. \A d \in Callers : /\ call'[d].n = call[d].n
                             /\ call'[d].at = IF d = c THEN "del_phy" ELSE call[d].at
      BY <2>1, GotoMoves
    <3> QED BY <1>d, <2>0, <2>1, <3>1
  <2>2. CASE ~(Goto(c, "del_phy") /\ UNCHANGED <<started, task>>)
    <3> DEFINE k == started + 1
    <3>1. /\ started < MaxInstalls /\ started' = k
          /\ task' = [task EXCEPT ![k] = "begin"]
          /\ call' = [call EXCEPT ![c].at = "wait", ![c].n = k]
      BY <1>3, <2>2 DEF Create
    <3>2. k \in Installs /\ \A n \in Installs : n > k => n > started /\ n # k
      BY <1>b, <3>1 DEF Installs
    <3>3. \A m \in Installs : task'[m] = IF m = k THEN "begin" ELSE task[m]
      BY <3>1, <3>2, TaskMoves
    <3>4. \A d \in Callers : d # c => call'[d] = call[d]
      BY <3>1 DEF StackTypeOK
    <3>5. call'[c].at = "wait"
      BY <3>1 DEF StackTypeOK, Calls
    <3>6. task[k] = "none" /\ isRunning /\ ctx = 0
      BY <1>b, <2>0, <3>2 DEF StartInv
    <3> HIDE DEF k
    <3>7. StartInv'
      <4>1. \A n \in Installs : n > started' => task'[n] = "none"
        BY <3>1, <3>2, <3>3 DEF StartInv
      <4>2. \A d \in Callers : call'[d].at = "create" => d # c /\ call[d].at = "create"
        BY <3>4, <3>5
      <4>3. \A d \in Callers : call'[d].at # "create"
        BY <2>0, <4>2 DEF StartInv
      <4>4. \A m \in Installs : task'[m] \in Coming => m = k
        BY <2>0, <3>3 DEF StartInv
      <4> QED BY <2>0, <3>6, <4>1, <4>3, <4>4 DEF StartInv
    <3>8. ServeInv'
      BY <2>0, <3>2, <3>3, <3>4, <3>5, <3>6 DEF ServeInv
    <3> QED BY <1>a, <3>7, <3>8
  <2> QED BY <2>1, <2>2
<1>4. ASSUME NEW c \in Callers, TimedOut(c) PROVE StackInv'
  <2>1. \A d \in Callers : /\ call'[d].n = call[d].n
                           /\ call'[d].at = IF d = c THEN "del_phy" ELSE call[d].at
    BY <1>4, GotoMoves DEF TimedOut
  <2> QED BY <1>4, <1>d, <2>1 DEF TimedOut
<1>5. ASSUME NEW c \in Callers, Save(c) \/ DelPhy(c) PROVE StackInv'
  <2>1. \A d \in Callers : call'[d] = IF d = c THEN NoCall ELSE call[d]
    BY <1>5, CallMoves DEF Save, DelPhy
  <2>2. NoCall.at = "idle"
    BY DEF NoCall
  <2> QED BY <1>5, <1>d, <2>1, <2>2 DEF Save, DelPhy
<1>6. ASSUME NEW c \in Callers, StopTake(c) PROVE StackInv'
  <2>1. /\ ctx # 0 /\ ctx' = 0 /\ isRunning' = FALSE
        /\ UNCHANGED <<task, started, inited, desc>>
        /\ call' = [call EXCEPT ![c] = [at |-> "delete", n |-> ctx, phy |-> FALSE]]
    BY <1>6 DEF StopTake
  <2>2. \A d \in Callers :
           call'[d] = IF d = c THEN [at |-> "delete", n |-> ctx, phy |-> FALSE] ELSE call[d]
    BY <2>1, CallMoves
  <2>3. /\ call'[c].at = "delete" /\ call'[c].n = ctx
        /\ \A d \in Callers : d # c => call'[d] = call[d]
    BY <2>2
  <2>4. StartInv'
    BY <2>1, <2>3 DEF StartInv
  <2>5. ServeInv'
    BY <1>c, <2>1, <2>3 DEF ServeInv
  <2> QED BY <1>a, <2>4, <2>5
<1>7. ASSUME NEW c \in Callers, StopDelete(c) PROVE StackInv'
  <2>1. /\ At(c, "delete") /\ task' = [task EXCEPT ![call[c].n] = "gone"]
        /\ Goto(c, "teardown")
        /\ UNCHANGED <<isRunning, ctx, started, inited, desc>>
    BY <1>7 DEF StopDelete
  <2>2. \A d \in Callers : /\ call'[d].n = call[d].n
                           /\ call'[d].at = IF d = c THEN "teardown" ELSE call[d].at
    BY <2>1, GotoMoves
  <2>3. call[c].n \in Installs /\ task[call[c].n] \in Up
    BY <2>1 DEF ServeInv
  <2>4. \A m \in Installs : task'[m] = IF m = call[c].n THEN "gone" ELSE task[m]
    BY <2>1, <2>3 DEF StackTypeOK
  <2>5. StartInv'
    BY <2>1, <2>2, <2>3, <2>4 DEF StartInv
  <2>6. ctx = 0
    BY <2>1 DEF ServeInv
  <2>7. ServeInv'
    BY <2>1, <2>2, <2>3, <2>4, <2>6 DEF ServeInv
  <2> QED BY <1>a, <2>5, <2>7
<1>8. ASSUME NEW c \in Callers, StopTeardown(c) PROVE StackInv'
  <2>1. /\ At(c, "teardown") /\ inited' = FALSE
        /\ UNCHANGED <<isRunning, ctx, task, started, desc>>
    BY <1>8 DEF StopTeardown
  <2>2. inited
    BY <2>1 DEF ServeInv
  <2>3. Goto(c, "phy")
    BY <1>8, <2>2 DEF StopTeardown
  <2>4. \A d \in Callers : /\ call'[d].n = call[d].n
                           /\ call'[d].at = IF d = c THEN "phy" ELSE call[d].at
    BY <2>3, GotoMoves
  <2>5. StartInv'
    BY <2>1, <2>4 DEF StartInv
  <2>6. ServeInv'
    BY <2>1, <2>2, <2>4 DEF ServeInv
  <2> QED BY <1>a, <2>5, <2>6
<1>9. ASSUME NEW c \in Callers, StopPhy(c) PROVE StackInv'
  <2>1. \A d \in Callers : call'[d] = IF d = c THEN NoCall ELSE call[d]
    BY <1>9, CallMoves DEF StopPhy
  <2>2. NoCall.at = "idle"
    BY DEF NoCall
  <2> QED BY <1>9, <1>d, <2>1, <2>2 DEF StopPhy
<1>10. ASSUME NEW n \in Installs, CheckInited(n) PROVE StackInv'
  <2>1. /\ task[n] = "begin"
        /\ UNCHANGED <<isRunning, ctx, started, inited, desc, call>>
        /\ \A m \in Installs :
              task'[m] = IF m = n THEN IF inited THEN "del" ELSE "set" ELSE task[m]
    BY <1>10, TaskMoves DEF CheckInited, Step
  <2>2. StartInv'
    BY <2>1 DEF StartInv
  <2>3. ServeInv'
    BY <1>c, <2>1 DEF ServeInv
  <2> QED BY <1>a, <2>2, <2>3
<1>11. ASSUME NEW n \in Installs, DescriptorsSet(n) PROVE StackInv'
  <2>1. /\ task[n] = "set" /\ desc' = n
        /\ UNCHANGED <<isRunning, ctx, started, inited, call>>
        /\ \A m \in Installs : task'[m] = IF m = n THEN "init" ELSE task[m]
    BY <1>11, TaskMoves DEF DescriptorsSet, Step
  <2>2. StartInv'
    BY <2>1 DEF StartInv
  <2>3. ServeInv'
    BY <1>c, <2>1 DEF ServeInv, StartInv
  <2> QED BY <1>a, <2>2, <2>3
<1>12. ASSUME NEW n \in Installs, RhportInit(n) PROVE StackInv'
  <2>0. /\ task[n] = "init"
        /\ UNCHANGED <<isRunning, ctx, started, desc, call>>
    BY <1>12 DEF RhportInit, Step
  <2>1. CASE inited' = TRUE /\ task' = [task EXCEPT ![n] = "publish"]
    <3>1. \A m \in Installs : task'[m] = IF m = n THEN "publish" ELSE task[m]
      BY <2>1, TaskMoves
    <3>2. StartInv'
      BY <2>0, <3>1 DEF StartInv
    <3>3. ServeInv'
      BY <1>c, <2>0, <2>1, <3>1 DEF ServeInv, StartInv
    <3> QED BY <1>a, <3>2, <3>3
  <2>2. CASE inited' = inited /\ task' = [task EXCEPT ![n] = "del"]
    <3>1. \A m \in Installs : task'[m] = IF m = n THEN "del" ELSE task[m]
      BY <2>2, TaskMoves
    <3>2. StartInv'
      BY <2>0, <3>1 DEF StartInv
    <3>3. ServeInv'
      BY <1>c, <2>0, <2>2, <3>1 DEF ServeInv, StartInv
    <3> QED BY <1>a, <3>2, <3>3
  <2> QED BY <1>12, <2>1, <2>2 DEF RhportInit, Step
<1>13. ASSUME NEW n \in Installs, GiveUp(n) PROVE StackInv'
  <2>1. /\ task[n] = "del" /\ isRunning' = FALSE
        /\ UNCHANGED <<ctx, started, inited, desc, call>>
        /\ \A m \in Installs : task'[m] = IF m = n THEN "gone" ELSE task[m]
    BY <1>13, TaskMoves DEF GiveUp, Step
  <2>2. StartInv'
    BY <2>1 DEF StartInv
  <2>3. ServeInv'
    BY <1>c, <2>1 DEF ServeInv
  <2> QED BY <1>a, <2>2, <2>3
<1>14. ASSUME NEW n \in Installs, Publish(n) PROVE StackInv'
  <2>1. /\ task[n] = "publish" /\ ctx' = n
        /\ UNCHANGED <<isRunning, started, inited, desc, call>>
        /\ \A m \in Installs : task'[m] = IF m = n THEN "notify" ELSE task[m]
    BY <1>14, TaskMoves DEF Publish, Step
  <2>2. StartInv'
    BY <2>1 DEF StartInv
  <2>3. ServeInv'
    BY <1>c, <2>1 DEF ServeInv, StartInv
  <2> QED BY <1>a, <2>2, <2>3
<1>15. ASSUME NEW n \in Installs, Notify(n) PROVE StackInv'
  <2>1. /\ task[n] = "notify"
        /\ UNCHANGED <<isRunning, ctx, started, inited, desc>>
        /\ \A m \in Installs : task'[m] = IF m = n THEN "loop" ELSE task[m]
    BY <1>15, TaskMoves DEF Notify, Step
  <2>2. \A c \in Callers : call'[c].at \in {"create", "delete", "teardown"}
                               => call'[c].at = call[c].at /\ call'[c].n = call[c].n
    BY <1>15 DEF Notify, StackTypeOK, Calls
  <2>3. StartInv'
    BY <2>1, <2>2 DEF StartInv
  <2>4. ServeInv'
    BY <1>c, <2>1, <2>2 DEF ServeInv
  <2> QED BY <1>a, <2>3, <2>4
<1> QED BY <1>0, <1>1, <1>2, <1>3, <1>4, <1>5, <1>6, <1>7, <1>8, <1>9, <1>10, <1>11,
           <1>12, <1>13, <1>14, <1>15 DEF StackNext

\* The console's steps leave the stack alone.
LEMMA StackMoves ==
    ASSUME [Next]_vars
    PROVE  [StackNext]_stackVars
<1>1. CASE UNCHANGED vars
    BY <1>1 DEF vars
<1>2. CASE Lifecycle
    BY <1>2 DEF Lifecycle
<1>3. CASE CdcInit \/ AllocObj \/ \E event \in {"rx", "line_state"} : RegisterCallback(event)
    BY <1>3 DEF CdcInit, AllocObj, RegisterCallback
<1>4. CASE MgmtWrite \/ WriterTake \/ WriterPlace \/ HostReads
    BY <1>4 DEF MgmtWrite, WriterTake, WriterPlace, HostReads
<1>5. CASE HostSends \/ Rx \/ LineState \/ BusReset \/ ControlTakes
    BY <1>5 DEF HostSends, Rx, LineState, BusReset, ControlTakes
<1> QED BY <1>1, <1>2, <1>3, <1>4, <1>5 DEF Next

-----------------------------------------------------------------------------
(* The console's types. *)

Pieces == [from : Nat, to : Nat]
PieceTypes == [from : Nat, to : Nat, retries : 0 .. Tries - 1]

InputTypes ==
    /\ cdc \in {"none", "bare", "acm"} /\ callbacks \subseteq {"rx", "line_state"}
    /\ rxFifo \in Nat /\ reading \in BOOLEAN
    /\ used \in 0 .. LineMax /\ overflow \in BOOLEAN
    /\ commands \in Seq(1 .. LineMax) /\ Len(commands) <= CommandsMax
    /\ typed \in Seq(Bytes) /\ sent \in Nat
OutputTypes ==
    /\ output \in Seq(Pieces) /\ Len(output) <= OutputMax
    /\ piece \in PieceTypes
    /\ txFifo \in Seq(Nat) /\ Len(txFifo) <= TxMax
    /\ lastRead \in Nat /\ printed \in Nat

\* The types of the console are those of what it reads and what it prints.
LEMMA TypesSplit == ConsoleTypeOK <=> StackTypeOK /\ InputTypes /\ OutputTypes
    BY DEF ConsoleTypeOK, InputTypes, OutputTypes, Pieces, PieceTypes

\* A piece put into the queue, or lost, leaves a queue of pieces.
LEMMA PutTypes ==
    ASSUME OutputTypes, NEW n \in Nat, Put(n)
    PROVE  /\ output' \in Seq(Pieces) /\ Len(output') <= OutputMax /\ printed' \in Nat
<1>1. CASE Len(output) < OutputMax
  <2>1. [from |-> printed + 1, to |-> printed + n] \in Pieces
    BY DEF OutputTypes, Pieces
  <2>2. /\ output' = Append(output, [from |-> printed + 1, to |-> printed + n])
        /\ printed' = printed + n
    BY <1>1 DEF Put
  <2>3. output \in Seq(Pieces) /\ Len(output) \in Nat /\ printed \in Nat
    BY DEF OutputTypes
  <2>4. output' \in Seq(Pieces) /\ Len(output') = Len(output) + 1
    BY <2>1, <2>2, <2>3
  <2> QED BY <1>1, <2>2, <2>3, <2>4, ConsoleAssumption
<1>2. CASE ~(Len(output) < OutputMax)
    BY <1>2 DEF OutputTypes, Put
<1> QED BY <1>1, <1>2

\* So does what a callback answers.
LEMMA AnswerTypes ==
    ASSUME OutputTypes, Answer
    PROVE  OutputTypes'
<1>1. output' \in Seq(Pieces) /\ Len(output') <= OutputMax /\ printed' \in Nat
    BY PutTypes DEF Answer, OutputTypes
<1> QED BY <1>1 DEF Answer, OutputTypes

\* What the writer has left to place, and what it places of it.
LEMMA Placed ==
    ASSUME OutputTypes, piece.from <= piece.to,
           NEW k, k = IF cdc = "acm" THEN Least(piece.to - piece.from + 1, Room) ELSE 0
    PROVE  /\ k \in Nat /\ k <= Room /\ piece.from + k <= piece.to + 1
           /\ Left(piece, k) \in PieceTypes
           /\ \A b \in Of(Left(piece, k)) : b \in Of(piece) /\ piece.from + k <= b
<1>1. /\ piece.from \in Nat /\ piece.to \in Nat /\ piece.retries \in 0 .. Tries - 1
      /\ Tries \in Nat \ {0} /\ Room \in Nat
    BY ConsoleAssumption DEF OutputTypes, PieceTypes, Room
<1>2. k \in Nat /\ k <= Room /\ piece.from + k <= piece.to + 1
    BY <1>1 DEF Least
<1>3. CASE piece.from + k > piece.to \/ piece.retries + 1 = Tries
    BY <1>1, <1>2, <1>3 DEF Left, Idle, PieceTypes, Of
<1>4. CASE ~(piece.from + k > piece.to \/ piece.retries + 1 = Tries)
  <2>1. Left(piece, k) = [from |-> piece.from + k, to |-> piece.to,
                          retries |-> piece.retries + 1]
    BY <1>4 DEF Left, OutputTypes, PieceTypes
  <2> QED BY <1>1, <1>2, <1>4, <2>1 DEF PieceTypes, Of
<1> QED BY <1>2, <1>3, <1>4

\* TinyUSB's buffer after the writer placed k bytes of its piece.
LEMMA PlacedBytes ==
    ASSUME OutputTypes, NEW k \in Nat,
           txFifo' = txFifo \o [i \in 1 .. k |-> piece.from + i - 1]
    PROVE  /\ txFifo' \in Seq(Nat) /\ Len(txFifo') = Len(txFifo) + k
           /\ \A j \in DOMAIN txFifo' :
                 /\ j \in Nat
                 /\ \/ j \in DOMAIN txFifo /\ txFifo'[j] = txFifo[j]
                    \/ /\ j - Len(txFifo) \in 1 .. k
                       /\ txFifo'[j] = piece.from + (j - Len(txFifo)) - 1
<1> DEFINE new == [i \in 1 .. k |-> piece.from + i - 1]
<1>1. txFifo \in Seq(Nat) /\ Len(txFifo) \in Nat /\ piece.from \in Nat
    BY DEF OutputTypes, PieceTypes
<1>2. new \in Seq(Nat) /\ Len(new) = k /\ \A i \in 1 .. k : new[i] = piece.from + i - 1
  <2>1. \A i \in 1 .. k : piece.from + i - 1 \in Nat
    BY <1>1
  <2> QED BY <2>1
<1> HIDE DEF new
<1>3. /\ txFifo' \in Seq(Nat) /\ Len(txFifo') = Len(txFifo) + k
      /\ \A j \in 1 .. Len(txFifo) + k :
            txFifo'[j] = IF j <= Len(txFifo) THEN txFifo[j] ELSE new[j - Len(txFifo)]
    BY <1>1, <1>2, ConcatProperties DEF new
<1>4. DOMAIN txFifo' = 1 .. Len(txFifo) + k /\ DOMAIN txFifo = 1 .. Len(txFifo)
    BY <1>1, <1>3, LenProperties
<1>5. ASSUME NEW j \in DOMAIN txFifo'
      PROVE  /\ j \in Nat
             /\ \/ j \in DOMAIN txFifo /\ txFifo'[j] = txFifo[j]
                \/ /\ j - Len(txFifo) \in 1 .. k
                   /\ txFifo'[j] = piece.from + (j - Len(txFifo)) - 1
  <2>1. CASE j <= Len(txFifo)
    BY <1>1, <1>3, <1>4, <1>5, <2>1
  <2>2. CASE ~(j <= Len(txFifo))
    <3>1. j - Len(txFifo) \in 1 .. k
      BY <1>1, <1>4, <1>5, <2>2
    <3> QED BY <1>1, <1>2, <1>3, <1>4, <1>5, <2>2, <3>1
  <2> QED BY <2>1, <2>2
<1> QED BY <1>3, <1>5

\* Every step keeps the types of what is printed.
LEMMA OutputTypesStep ==
    ASSUME OutputTypes, [Next]_vars
    PROVE  OutputTypes'
<1>1. CASE UNCHANGED outputVars
    BY <1>1 DEF outputVars, OutputTypes
<1>2. CASE UNCHANGED vars \/ Lifecycle \/ CdcInit \/ AllocObj
             \/ \E event \in {"rx", "line_state"} : RegisterCallback(event)
    BY <1>1, <1>2 DEF vars, consoleVars, outputVars, Lifecycle, CdcInit, AllocObj,
       RegisterCallback
<1>3. CASE HostSends \/ ControlTakes
    BY <1>1, <1>3 DEF HostSends, ControlTakes
<1>4. CASE MgmtWrite
  <2>1. \E n \in Nat : Put(n)
    BY <1>4, ConsoleAssumption DEF MgmtWrite
  <2>2. output' \in Seq(Pieces) /\ Len(output') <= OutputMax /\ printed' \in Nat
    BY <2>1, PutTypes
  <2> QED BY <1>4, <2>2 DEF MgmtWrite, OutputTypes
<1>5. CASE WriterTake
  <2>1. output \in Seq(Pieces) /\ output # <<>> /\ output' = Tail(output)
    BY <1>5 DEF WriterTake, OutputTypes
  <2>2. Head(output) \in Pieces /\ output' \in Seq(Pieces) /\ Len(output') = Len(output) - 1
    BY <2>1
  <2>3. piece' \in PieceTypes
    BY <1>5, <2>2, ConsoleAssumption DEF WriterTake, Pieces, PieceTypes
  <2> QED BY <1>5, <2>2, <2>3, ConsoleAssumption DEF WriterTake, OutputTypes
<1>6. CASE WriterPlace
  <2>1. PICK k : /\ k = IF cdc = "acm" THEN Least(piece.to - piece.from + 1, Room) ELSE 0
                 /\ txFifo' = txFifo \o [i \in 1 .. k |-> piece.from + i - 1]
                 /\ piece' = Left(piece, k)
    BY <1>6 DEF WriterPlace
  <2>2. k \in Nat /\ k <= Room /\ piece' \in PieceTypes
    BY <1>6, <2>1, Placed DEF WriterPlace
  <2>3. txFifo' \in Seq(Nat) /\ Len(txFifo') = Len(txFifo) + k
    BY <2>1, <2>2, PlacedBytes
  <2>4. Len(txFifo') <= TxMax
    BY <2>2, <2>3, ConsoleAssumption DEF Room, OutputTypes
  <2> QED BY <1>6, <2>2, <2>3, <2>4 DEF WriterPlace, OutputTypes
<1>7. CASE HostReads
  <2>1. txFifo \in Seq(Nat) /\ txFifo # <<>>
    BY <1>7 DEF HostReads, OutputTypes
  <2>2. Head(txFifo) \in Nat /\ Tail(txFifo) \in Seq(Nat) /\ Len(Tail(txFifo)) = Len(txFifo) - 1
    BY <2>1
  <2> QED BY <1>7, <2>1, <2>2, ConsoleAssumption DEF HostReads, OutputTypes
<1>8. CASE Rx
    BY <1>1, <1>8, AnswerTypes DEF Rx, RxEnd, RxByte
<1>9. CASE LineState
    BY <1>9, AnswerTypes DEF LineState
<1>10. CASE BusReset
    BY <1>10, ConsoleAssumption DEF BusReset, OutputTypes
<1> QED BY <1>2, <1>3, <1>4, <1>5, <1>6, <1>7, <1>8, <1>9, <1>10 DEF Next

\* Every step keeps the types of what is read.
LEMMA InputTypesStep ==
    ASSUME InputTypes, [Next]_vars
    PROVE  InputTypes'
<1> USE ConsoleAssumption
<1>1. CASE UNCHANGED <<portVars, inputVars>>
    BY <1>1 DEF portVars, inputVars, InputTypes
<1>2. CASE UNCHANGED vars \/ Lifecycle
    BY <1>1, <1>2 DEF vars, consoleVars, portVars, inputVars, Lifecycle
<1>3. CASE MgmtWrite \/ WriterTake \/ WriterPlace \/ HostReads \/ LineState
    BY <1>1, <1>3 DEF MgmtWrite, WriterTake, WriterPlace, HostReads, LineState
<1>4. CASE CdcInit \/ AllocObj \/ \E event \in {"rx", "line_state"} : RegisterCallback(event)
    BY <1>4 DEF CdcInit, AllocObj, RegisterCallback, inputVars, InputTypes
<1>5. CASE HostSends
  <2>1. reading' \in BOOLEAN
    BY <1>5 DEF HostSends, CallsBack
  <2>2. rxFifo' \in Nat /\ sent' \in Nat
    BY <1>5 DEF HostSends, InputTypes
  <2> QED BY <1>5, <2>1, <2>2 DEF HostSends, portVars, InputTypes
<1>6. CASE Rx
  <2>1. UNCHANGED <<cdc, callbacks, sent>>
    BY <1>6 DEF Rx, portVars
  <2>2. CASE rxFifo = 0
    BY <1>6, <2>1, <2>2 DEF Rx, InputTypes
  <2>3. CASE rxFifo # 0
    <3>1. rxFifo' \in Nat /\ reading' \in BOOLEAN
      BY <1>6, <2>3 DEF Rx, InputTypes
    <3>2. CASE RxEnd
      <4>0. used' = 0 /\ overflow' = FALSE
        BY <3>2 DEF RxEnd, Fresh
      <4>1. used' \in 0 .. LineMax
        BY <4>0
      <4>5. overflow' \in BOOLEAN
        BY <4>0
      <4>2. typed' \in Seq(Bytes)
        BY <3>2 DEF RxEnd
      <4>3. commands' \in Seq(1 .. LineMax) /\ Len(commands') <= CommandsMax
        <5>1. CASE ~overflow /\ used > 0 /\ Len(commands) < CommandsMax
          <6>1. commands' = Append(commands, used) /\ used \in 1 .. LineMax
            BY <3>2, <5>1 DEF RxEnd, InputTypes
          <6>2. commands \in Seq(1 .. LineMax) /\ Len(commands) \in Nat
            BY DEF InputTypes
          <6>3. commands' \in Seq(1 .. LineMax) /\ Len(commands') = Len(commands) + 1
            BY <6>1, <6>2
          <6> QED BY <5>1, <6>2, <6>3
        <5>2. CASE ~(~overflow /\ used > 0 /\ Len(commands) < CommandsMax)
          BY <3>2, <5>2 DEF RxEnd, InputTypes
        <5> QED BY <5>1, <5>2
      <4> QED BY <2>1, <3>1, <4>1, <4>2, <4>3, <4>5 DEF InputTypes
    <3>3. ASSUME NEW b \in Bytes, RxByte(b) PROVE InputTypes'
      <4>1. used' \in 0 .. LineMax
        BY <3>3 DEF RxByte, Erased, Grown, InputTypes
      <4>2. overflow' \in BOOLEAN
        BY <3>3 DEF RxByte
      <4>3. typed' \in Seq(Bytes)
        BY <3>3 DEF RxByte, InputTypes
      <4> QED BY <2>1, <3>1, <3>3, <4>1, <4>2, <4>3 DEF RxByte, InputTypes
    <3> QED BY <1>6, <2>3, <3>2, <3>3 DEF Rx
  <2> QED BY <2>2, <2>3
<1>7. CASE BusReset
    BY <1>7 DEF BusReset, portVars, InputTypes
<1>8. CASE ControlTakes
  <2>1. commands' \in Seq(1 .. LineMax) /\ Len(commands') <= CommandsMax
    BY <1>8 DEF ControlTakes, InputTypes
  <2> QED BY <1>8, <2>1 DEF ControlTakes, portVars, InputTypes
<1> QED BY <1>2, <1>3, <1>4, <1>5, <1>6, <1>7, <1>8 DEF Next

-----------------------------------------------------------------------------
(* What is printed comes out in order. *)

\* Nothing is on its way that was not printed.
AllPrinted ==
    /\ lastRead <= printed
    /\ \A b \in InBuffer \cup Of(piece) : b <= printed
    /\ \A k \in DOMAIN output : output[k].to <= printed

OutputInv == OutputInOrder /\ AllPrinted

\* Pieces and buffered bytes, as plain facts.
LEMMA InBufferIs ==
    /\ \A b : b \in InBuffer <=> \E j \in DOMAIN txFifo : b = txFifo[j]
    /\ \A b : b \in InBuffer' <=> \E j \in DOMAIN txFifo' : b = txFifo'[j]
    BY DEF InBuffer

\* A piece put into the queue is the last of it, and holds the last bytes printed.
LEMMA PutInv ==
    ASSUME OutputTypes, OutputInv, NEW n \in Nat, Put(n),
           UNCHANGED <<piece, txFifo, lastRead>>
    PROVE  OutputInv'
<1>1. InBuffer' = InBuffer /\ Of(piece)' = Of(piece)
    BY DEF InBuffer, Of
<1>2. CASE Len(output) < OutputMax
  <2> DEFINE new == [from |-> printed + 1, to |-> printed + n]
  <2>1. output' = Append(output, new) /\ printed' = printed + n
    BY <1>2 DEF Put
  <2>2. printed \in Nat /\ lastRead \in Nat /\ output \in Seq(Pieces) /\ new \in Pieces
    BY DEF OutputTypes, Pieces
  <2>3. /\ DOMAIN output' = 1 .. Len(output) + 1 /\ DOMAIN output = 1 .. Len(output)
        /\ \A k \in 1 .. Len(output) : output'[k] = output[k]
        /\ output'[Len(output) + 1] = new /\ Len(output) \in Nat
    BY <2>1, <2>2, AppendProperties, LenProperties
  <2>4. \A k \in DOMAIN output : output[k] \in Pieces
    BY <2>2
  <2>5. Of(new) = printed + 1 .. printed + n
    BY DEF Of
  <2> HIDE DEF new
  <2>6. \A k \in DOMAIN output : \A b \in Of(output[k]) : b \in Int /\ b <= printed
    BY <2>2, <2>4 DEF OutputInv, AllPrinted, Of, Pieces
  <2>7. \A b \in Of(new) : b \in Int /\ printed < b
    BY <2>2, <2>5
  <2>8. \A b \in {lastRead} \cup InBuffer \cup Of(piece) : b \in Int /\ b <= printed
    <3>1. \A b \in InBuffer : b \in Int
      BY InBufferIs DEF OutputTypes
    <3>2. \A b \in Of(piece) : b \in Int
      BY DEF Of
    <3> QED BY <2>2, <3>1, <3>2 DEF OutputInv, AllPrinted
  <2>9. \A j, k \in DOMAIN output' : j < k => Before(Of(output'[j]), Of(output'[k]))
    <3> SUFFICES ASSUME NEW j \in DOMAIN output', NEW k \in DOMAIN output', j < k
                 PROVE  Before(Of(output'[j]), Of(output'[k]))
      OBVIOUS
    <3>1. j \in DOMAIN output /\ output'[j] = output[j]
      BY <2>3
    <3>2. CASE k \in DOMAIN output
      BY <2>3, <3>1, <3>2 DEF OutputInv, OutputInOrder
    <3>3. CASE k \notin DOMAIN output
      <4>1. output'[k] = new
        BY <2>3, <3>3
      <4> QED BY <2>2, <2>6, <2>7, <3>1, <4>1 DEF Before
    <3> QED BY <3>2, <3>3
  <2>10. \A k \in DOMAIN output' :
            Before({lastRead} \cup InBuffer \cup Of(piece), Of(output'[k]))
    <3> SUFFICES ASSUME NEW k \in DOMAIN output'
                 PROVE  Before({lastRead} \cup InBuffer \cup Of(piece), Of(output'[k]))
      OBVIOUS
    <3>2. CASE k \in DOMAIN output
      BY <2>3, <3>2 DEF OutputInv, OutputInOrder
    <3>3. CASE k \notin DOMAIN output
      <4>1. output'[k] = new
        BY <2>3, <3>3
      <4> QED BY <2>2, <2>7, <2>8, <4>1 DEF Before
    <3> QED BY <3>2, <3>3
  <2>11. OutputInOrder'
    BY <1>1, <2>9, <2>10 DEF OutputInv, OutputInOrder
  <2>12. \A k \in DOMAIN output' : output'[k].to <= printed'
    <3> SUFFICES ASSUME NEW k \in DOMAIN output' PROVE output'[k].to <= printed'
      OBVIOUS
    <3>2. CASE k \in DOMAIN output
      BY <2>1, <2>2, <2>3, <2>4, <3>2 DEF OutputInv, AllPrinted, Pieces
    <3>3. CASE k \notin DOMAIN output
      <4>1. output'[k] = new
        BY <2>3, <3>3
      <4> QED BY <2>1, <2>2, <4>1 DEF new
    <3> QED BY <3>2, <3>3
  <2>13. printed <= printed'
    BY <2>1, <2>2
  <2>14. AllPrinted'
    <3>1. lastRead' = lastRead /\ printed' \in Int
      BY <2>1, <2>2
    <3>2. lastRead' <= printed'
      BY <2>2, <2>8, <2>13, <3>1
    <3>3. \A b \in InBuffer' \cup Of(piece)' : b <= printed'
      <4> SUFFICES ASSUME NEW b \in InBuffer \cup Of(piece) PROVE b <= printed'
        BY <1>1
      <4>1. b \in Int /\ b <= printed
        BY <2>8
      <4> QED BY <2>2, <2>13, <3>1, <4>1
    <3> QED BY <2>12, <3>2, <3>3 DEF AllPrinted
  <2> QED BY <2>11, <2>14 DEF OutputInv
<1>3. CASE ~(Len(output) < OutputMax)
    BY <1>1, <1>3 DEF Put, OutputInv, OutputInOrder, AllPrinted
<1> QED BY <1>2, <1>3

\* So does what a callback answers.
LEMMA AnswerInv ==
    ASSUME OutputTypes, OutputInv, Answer
    PROVE  OutputInv'
<1>1. CASE Put(1)
    BY <1>1, PutInv DEF Answer
<1>2. CASE UNCHANGED <<output, printed>>
    BY <1>2 DEF Answer, OutputInv, OutputInOrder, AllPrinted, InBuffer, Of
<1> QED BY <1>1, <1>2 DEF Answer

\* Every step keeps the bytes printed in order, wherever they are.
LEMMA OutputStep ==
    ASSUME OutputTypes, OutputInv, [Next]_vars
    PROVE  OutputInv'
<1>1. CASE UNCHANGED outputVars
    BY <1>1 DEF outputVars, OutputInv, OutputInOrder, AllPrinted, InBuffer, Of
<1>2. CASE UNCHANGED vars \/ Lifecycle \/ CdcInit \/ AllocObj
             \/ \E event \in {"rx", "line_state"} : RegisterCallback(event)
    BY <1>1, <1>2 DEF vars, consoleVars, outputVars, Lifecycle, CdcInit, AllocObj,
       RegisterCallback
<1>3. CASE HostSends \/ ControlTakes
    BY <1>1, <1>3 DEF HostSends, ControlTakes
<1>4. CASE MgmtWrite
    BY <1>4, PutInv, ConsoleAssumption DEF MgmtWrite
<1>5. CASE WriterTake
  <2>1. /\ output \in Seq(Pieces) /\ output # <<>> /\ output' = Tail(output)
        /\ UNCHANGED <<txFifo, lastRead, printed>>
    BY <1>5 DEF WriterTake, OutputTypes
  <2>2. /\ Head(output) = output[1] /\ 1 \in DOMAIN output /\ Head(output) \in Pieces
        /\ \A k \in DOMAIN output' : /\ k \in Nat /\ k + 1 \in DOMAIN output /\ 1 < k + 1
                                     /\ output'[k] = output[k + 1]
    BY <2>1, HeadTailProperties, LenProperties
  <2>3. InBuffer' = InBuffer
    BY <2>1 DEF InBuffer
  <2>4. Of(piece)' = Of(output[1])
    BY <1>5, <2>2 DEF WriterTake, Of
  <2>5. \A k \in DOMAIN output' : Before(Of(output[1]), Of(output'[k]))
    BY <2>2 DEF OutputInv, OutputInOrder
  <2>6. \A k \in DOMAIN output' : Before({lastRead} \cup InBuffer, Of(output'[k]))
    BY <2>2 DEF OutputInv, OutputInOrder, Before
  <2>7. \A j, k \in DOMAIN output' : j < k => Before(Of(output'[j]), Of(output'[k]))
    <3> SUFFICES ASSUME NEW j \in DOMAIN output', NEW k \in DOMAIN output', j < k
                 PROVE  Before(Of(output'[j]), Of(output'[k]))
      OBVIOUS
    <3>1. j + 1 < k + 1
      BY <2>2
    <3> QED BY <2>2, <3>1 DEF OutputInv, OutputInOrder
  <2>8. \A k \in DOMAIN output' :
            Before({lastRead} \cup InBuffer \cup Of(output[1]), Of(output'[k]))
    BY <2>5, <2>6 DEF Before
  <2>9. Before({lastRead} \cup InBuffer, Of(output[1]))
    BY <2>2 DEF OutputInv, OutputInOrder, Before
  <2>10. OutputInOrder'
    BY <2>1, <2>3, <2>4, <2>7, <2>8, <2>9 DEF OutputInv, OutputInOrder
  <2>11. \A b \in Of(output[1]) : b <= printed
    BY <2>2 DEF OutputInv, AllPrinted, Of, Pieces, OutputTypes
  <2>12. AllPrinted'
    BY <2>1, <2>2, <2>3, <2>4, <2>11 DEF OutputInv, AllPrinted
  <2> QED BY <2>10, <2>12 DEF OutputInv
<1>6. CASE WriterPlace
  <2>1. PICK k : /\ k = IF cdc = "acm" THEN Least(piece.to - piece.from + 1, Room) ELSE 0
                 /\ txFifo' = txFifo \o [i \in 1 .. k |-> piece.from + i - 1]
                 /\ piece' = Left(piece, k)
    BY <1>6 DEF WriterPlace
  <2>2. /\ k \in Nat /\ piece.from + k <= piece.to + 1 /\ piece' \in PieceTypes
        /\ \A b \in Of(piece)' : b \in Of(piece) /\ piece.from + k <= b
    BY <1>6, <2>1, Placed DEF WriterPlace
  <2>3. /\ txFifo' \in Seq(Nat) /\ Len(txFifo') = Len(txFifo) + k
        /\ \A j \in DOMAIN txFifo' :
              /\ j \in Nat
              /\ \/ j \in DOMAIN txFifo /\ txFifo'[j] = txFifo[j]
                 \/ /\ j - Len(txFifo) \in 1 .. k
                    /\ txFifo'[j] = piece.from + (j - Len(txFifo)) - 1
    BY <2>1, <2>2, PlacedBytes
  <2>4. /\ UNCHANGED <<output, lastRead, printed>> /\ piece.from \in Nat /\ piece.to \in Nat
        /\ Len(txFifo) \in Nat /\ DOMAIN txFifo = 1 .. Len(txFifo) /\ lastRead \in Nat
        /\ printed \in Nat /\ \A j \in DOMAIN txFifo : txFifo[j] \in Nat
    BY <1>6, LenProperties DEF WriterPlace, OutputTypes, PieceTypes
  <2>5. \A j \in DOMAIN txFifo' :
           \/ j \in DOMAIN txFifo /\ txFifo'[j] = txFifo[j] /\ txFifo[j] \in InBuffer
           \/ /\ j \notin DOMAIN txFifo
              /\ txFifo'[j] = piece.from + (j - Len(txFifo)) - 1
              /\ txFifo'[j] \in Of(piece) /\ txFifo'[j] < piece.from + k
    <3> SUFFICES ASSUME NEW j \in DOMAIN txFifo'
                 PROVE  \/ j \in DOMAIN txFifo /\ txFifo'[j] = txFifo[j] /\ txFifo[j] \in InBuffer
                        \/ /\ j \notin DOMAIN txFifo
                           /\ txFifo'[j] = piece.from + (j - Len(txFifo)) - 1
                           /\ txFifo'[j] \in Of(piece) /\ txFifo'[j] < piece.from + k
      OBVIOUS
    <3>1. CASE j \in DOMAIN txFifo /\ txFifo'[j] = txFifo[j]
      BY <3>1, InBufferIs
    <3>2. CASE /\ j - Len(txFifo) \in 1 .. k
               /\ txFifo'[j] = piece.from + (j - Len(txFifo)) - 1
      <4>1. j \in Nat
        BY <2>3
      <4>2. j \notin DOMAIN txFifo
        BY <2>4, <3>2, <4>1
      <4>3. txFifo'[j] \in Of(piece) /\ txFifo'[j] < piece.from + k
        BY <2>2, <2>4, <3>2, <4>1 DEF Of
      <4> QED BY <3>2, <4>2, <4>3
    <3> QED BY <2>3, <3>1, <3>2
  <2>6. \A b \in InBuffer' : b \in InBuffer \/ (b \in Of(piece) /\ b < piece.from + k)
    BY <2>5, InBufferIs
  <2>7. Before({lastRead} \cup InBuffer, Of(piece))
    BY DEF OutputInv, OutputInOrder
  <2>8. \A i, j \in DOMAIN txFifo' : i < j => txFifo'[i] < txFifo'[j]
    <3> SUFFICES ASSUME NEW i \in DOMAIN txFifo', NEW j \in DOMAIN txFifo', i < j
                 PROVE  txFifo'[i] < txFifo'[j]
      OBVIOUS
    <3>1. i \in Nat /\ j \in Nat
      BY <2>3
    <3>2. CASE j \in DOMAIN txFifo
      <4>1. i \in DOMAIN txFifo
        BY <2>3, <2>4, <3>1, <3>2, LenProperties
      <4> QED BY <2>5, <3>2, <4>1 DEF OutputInv, OutputInOrder
    <3>3. CASE j \notin DOMAIN txFifo /\ i \in DOMAIN txFifo
      BY <2>5, <2>7, <3>3 DEF Before
    <3>4. CASE j \notin DOMAIN txFifo /\ i \notin DOMAIN txFifo
      BY <2>4, <2>5, <3>1, <3>4
    <3> QED BY <3>2, <3>3, <3>4
  <2>9. Before({lastRead}, InBuffer')
    BY <2>6, <2>7 DEF Before, OutputInv, OutputInOrder
  <2>10. Before({lastRead} \cup InBuffer', Of(piece)')
    <3> SUFFICES ASSUME NEW a \in {lastRead} \cup InBuffer', NEW b \in Of(piece)'
                 PROVE  a < b
      BY DEF Before
    <3>1. b \in Of(piece) /\ piece.from + k <= b /\ b \in Int
      BY <2>2, <2>4 DEF Of
    <3>2. CASE a \in {lastRead} \cup InBuffer
      BY <2>7, <3>1, <3>2 DEF Before
    <3>3. CASE a \in Of(piece) /\ a < piece.from + k
      BY <2>2, <2>4, <3>1, <3>3 DEF Of
    <3> QED BY <2>6, <3>2, <3>3
  <2>11. \A b \in {lastRead} \cup InBuffer' \cup Of(piece)' :
            b \in {lastRead} \cup InBuffer \cup Of(piece)
    BY <2>2, <2>6
  <2>12. \A j \in DOMAIN output :
            Before({lastRead} \cup InBuffer' \cup Of(piece)', Of(output[j]))
    BY <2>11 DEF Before, OutputInv, OutputInOrder
  <2>13. OutputInOrder'
    BY <2>4, <2>8, <2>9, <2>10, <2>12 DEF OutputInv, OutputInOrder
  <2>14. AllPrinted'
    BY <2>4, <2>11 DEF OutputInv, AllPrinted
  <2> QED BY <2>13, <2>14 DEF OutputInv
<1>7. CASE HostReads
  <2>1. /\ txFifo \in Seq(Nat) /\ txFifo # <<>> /\ txFifo' = Tail(txFifo)
        /\ lastRead' = Head(txFifo) /\ UNCHANGED <<output, piece, printed>>
    BY <1>7 DEF HostReads, OutputTypes
  <2>2. /\ lastRead' = txFifo[1] /\ 1 \in DOMAIN txFifo
        /\ \A k \in DOMAIN txFifo' : /\ k \in Nat /\ k + 1 \in DOMAIN txFifo /\ 1 < k + 1
                                     /\ txFifo'[k] = txFifo[k + 1]
    BY <2>1, HeadTailProperties, LenProperties
  <2>3. lastRead' \in InBuffer /\ \A b \in InBuffer' : b \in InBuffer
    BY <2>2, InBufferIs
  <2>4. Before({lastRead'}, InBuffer')
    BY <2>2, InBufferIs DEF Before, OutputInv, OutputInOrder
  <2>5. \A j, k \in DOMAIN txFifo' : j < k => txFifo'[j] < txFifo'[k]
    <3> SUFFICES ASSUME NEW j \in DOMAIN txFifo', NEW k \in DOMAIN txFifo', j < k
                 PROVE  txFifo'[j] < txFifo'[k]
      OBVIOUS
    <3>1. j + 1 < k + 1
      BY <2>2
    <3> QED BY <2>2, <3>1 DEF OutputInv, OutputInOrder
  <2>6. Of(piece)' = Of(piece)
    BY <2>1 DEF Of
  <2>7. Before({lastRead'} \cup InBuffer', Of(piece))
    BY <2>3 DEF Before, OutputInv, OutputInOrder
  <2>8. \A k \in DOMAIN output :
            Before({lastRead'} \cup InBuffer' \cup Of(piece), Of(output[k]))
    BY <2>3 DEF Before, OutputInv, OutputInOrder
  <2>9. OutputInOrder'
    BY <2>1, <2>4, <2>5, <2>6, <2>7, <2>8 DEF OutputInv, OutputInOrder
  <2>10. AllPrinted'
    BY <2>1, <2>3, <2>6 DEF OutputInv, AllPrinted
  <2> QED BY <2>9, <2>10 DEF OutputInv
<1>8. CASE Rx
    BY <1>1, <1>8, AnswerInv DEF Rx, RxEnd, RxByte
<1>9. CASE LineState
    BY <1>9, AnswerInv DEF LineState
<1>10. CASE BusReset
  <2>1. InBuffer' = {} /\ DOMAIN txFifo' = {} /\ Of(piece)' = Of(piece)
    BY <1>10 DEF BusReset, InBuffer, Of
  <2> QED BY <1>10, <2>1 DEF BusReset, OutputInv, OutputInOrder, AllPrinted, Before
<1> QED BY <1>2, <1>3, <1>4, <1>5, <1>6, <1>7, <1>8, <1>9, <1>10 DEF Next

-----------------------------------------------------------------------------
(* The console is not up, and nothing is printed or read. *)

\* Before the console is up its types hold.
LEMMA InitTypes == Init => ConsoleTypeOK
<1> SUFFICES ASSUME Init PROVE ConsoleTypeOK
    OBVIOUS
<1>1. StackTypeOK
    BY StackInitInv DEF Init, StackInv
<1>2. 0 \in 0 .. LineMax /\ 0 \in 0 .. Tries - 1
    BY ConsoleAssumption
<1>3. InputTypes
  <2>1. used \in 0 .. LineMax /\ rxFifo \in Nat /\ sent \in Nat
    BY <1>2 DEF Init, ConsoleInit
  <2>2. commands \in Seq(1 .. LineMax) /\ Len(commands) <= CommandsMax /\ typed \in Seq(Bytes)
    BY ConsoleAssumption DEF Init, ConsoleInit
  <2>3. /\ cdc \in {"none", "bare", "acm"} /\ callbacks \subseteq {"rx", "line_state"}
        /\ reading \in BOOLEAN /\ overflow \in BOOLEAN
    BY DEF Init, ConsoleInit
  <2> QED BY <2>1, <2>2, <2>3 DEF InputTypes
<1>4. OutputTypes
    BY <1>2, ConsoleAssumption DEF Init, ConsoleInit, OutputTypes, PieceTypes, Idle
<1> QED BY <1>1, <1>3, <1>4, TypesSplit

\* Nothing printed is in order.
LEMMA InitOrdered == Init => OutputInv
<1> SUFFICES ASSUME Init PROVE OutputInv
    OBVIOUS
<1>1. /\ txFifo = <<>> /\ output = <<>> /\ lastRead = 0 /\ printed = 0
      /\ piece.from = 1 /\ piece.to = 0
    BY DEF Init, ConsoleInit, Idle
<1>2. InBuffer = {} /\ Of(piece) = {} /\ DOMAIN txFifo = {} /\ DOMAIN output = {}
    BY <1>1 DEF InBuffer, Of
<1> QED BY <1>1, <1>2 DEF OutputInv, OutputInOrder, AllPrinted, Before

-----------------------------------------------------------------------------
(* The theorems. *)

\* The console's buffers stay within their bounds: a line is never longer than
\* its array, the queues and TinyUSB's buffer never hold more than they can, and
\* the writer gives a piece up before it tried it Tries times.
THEOREM ConsoleTypes == Spec => []ConsoleTypeOK
<1>1. ConsoleTypeOK /\ [Next]_vars => ConsoleTypeOK'
  <2> SUFFICES ASSUME ConsoleTypeOK, [Next]_vars PROVE ConsoleTypeOK'
    OBVIOUS
  <2>1. StackTypeOK'
    BY StackMoves, StackTypes, TypesSplit
  <2>2. InputTypes' /\ OutputTypes'
    BY TypesSplit, InputTypesStep, OutputTypesStep
  <2> QED BY <2>1, <2>2 DEF ConsoleTypeOK, InputTypes, OutputTypes, Pieces, PieceTypes
<1> QED BY InitTypes, <1>1, PTL DEF Spec

\* At most one task serves the host, on the stack it brought up and through the
\* descriptors it set, however installations and uninstallations interleave.
THEOREM OneStackServes == Spec => []OneStack
<1>1. Init => StackInv
    BY StackInitInv DEF Init
<1>2. StackInv /\ [Next]_vars => StackInv'
    BY StackMoves, StackStep
<1> QED BY <1>1, <1>2, StackInvMeans, PTL DEF Spec

\* Whatever was lost to full buffers, bus resets and a terminal that does not
\* read, and however often the writer retried a piece, the host reads what was
\* printed in its order and no byte of it twice.
THEOREM OutputOrdered == Spec => []OutputInOrder
<1>1. OutputInv /\ OutputTypes /\ [Next]_vars => OutputInv'
    BY OutputStep
<1>2. ConsoleTypeOK => OutputTypes
    BY TypesSplit
<1>3. OutputInv => OutputInOrder
    BY DEF OutputInv
<1> QED BY InitOrdered, <1>1, <1>2, <1>3, ConsoleTypes, PTL DEF Spec

=============================================================================
