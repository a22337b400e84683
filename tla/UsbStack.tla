------------------------------ MODULE UsbStack ------------------------------
(***************************************************************************)
(* The life of the TinyUSB stack (esp_tinyusb: tinyusb.c, tinyusb_task.c,  *)
(* descriptors_control.c): callers install the driver, which starts a task *)
(* that brings the stack up and then serves it for ever, and uninstall it, *)
(* which deletes that task and takes the stack down.                       *)
(*                                                                         *)
(* A started task and its context are named by the installation, 1, 2 ...  *)
(* The wait of five seconds is longer than a task that starts takes: it    *)
(* runs out only when no notification can come any more.  What happens to  *)
(* the memory of a context is left out.                                    *)
(***************************************************************************)
EXTENDS Naturals, Sequences

CONSTANTS
    Callers,        \* tasks that install and uninstall
    MaxInstalls     \* bound: tasks started

ASSUME UsbStackAssumption == MaxInstalls \in Nat

Installs == 1 .. MaxInstalls

VARIABLES
    isRunning,      \* _task_is_running
    ctx,            \* p_tusb_task_ctx: an installation, 0 for NULL
    task,           \* each installation's task: how far it is
    started,        \* installations used up
    inited,         \* tud_inited()
    desc,           \* s_desc_cfg: who set it last
    phy,            \* the USB PHY is in use
    phyHdl,         \* s_ctx.phy_hdl is set
    call            \* each caller: [at, n: its installation, phy: made one]

stackVars == <<isRunning, ctx, task, started, inited, desc, phy, phyHdl, call>>

NoCall == [at |-> "idle", n |-> 0, phy |-> FALSE]

Calls == [at : {"idle", "start", "create", "wait", "save", "del_phy", "delete",
                "teardown", "phy"},
          n : 0 .. MaxInstalls, phy : BOOLEAN]

StackTypeOK ==
    /\ isRunning \in BOOLEAN /\ inited \in BOOLEAN
    /\ phy \in BOOLEAN /\ phyHdl \in BOOLEAN
    /\ ctx \in 0 .. MaxInstalls /\ started \in 0 .. MaxInstalls
    /\ desc \in 0 .. MaxInstalls
    /\ task \in [Installs -> {"none", "begin", "set", "init", "publish", "notify",
                             "loop", "del", "gone"}]
    /\ call \in [Callers -> Calls]

StackInit ==
    /\ isRunning = FALSE /\ ctx = 0 /\ started = 0 /\ inited = FALSE /\ desc = 0
    /\ task = [n \in Installs |-> "none"]
    /\ phy = FALSE /\ phyHdl = FALSE
    /\ call = [c \in Callers |-> NoCall]

At(c, where) == call[c].at = where
Goto(c, where) == call' = [call EXCEPT ![c].at = where]

-----------------------------------------------------------------------------
(* tinyusb_driver_install. *)

\* Making the PHY fails while another is in use.
Install(c) ==
    /\ At(c, "idle") /\ started < MaxInstalls
    /\ \E skip \in BOOLEAN :
         /\ skip \/ ~phy
         /\ phy' = (phy \/ ~skip)
         /\ call' = [call EXCEPT ![c] = [at |-> "start", n |-> 0, phy |-> ~skip]]
    /\ UNCHANGED <<isRunning, ctx, task, started, inited, desc, phyHdl>>

\* Mutant of Startable: only a task that came up keeps another one away.
StartableByCtx == ctx = 0
Startable == ctx = 0 /\ ~isRunning

\* tinyusb_task_start up to the end of its critical section.
Start(c) ==
    /\ At(c, "start")
    /\ IF Startable
         THEN isRunning' = TRUE /\ Goto(c, "create")
         ELSE Goto(c, "del_phy") /\ UNCHANGED isRunning
    /\ UNCHANGED <<ctx, task, started, inited, desc, phy, phyHdl>>

\* There may be no memory for the context or the task: the flag stays set.
Create(c) ==
    /\ At(c, "create")
    /\ \/ /\ started < MaxInstalls
          /\ started' = started + 1
          /\ task' = [task EXCEPT ![started + 1] = "begin"]
          /\ call' = [call EXCEPT ![c].at = "wait", ![c].n = started + 1]
       \/ Goto(c, "del_phy") /\ UNCHANGED <<started, task>>
    /\ UNCHANGED <<isRunning, ctx, inited, desc, phy, phyHdl>>

\* The task gave up, or was deleted before it could notify.
TimedOut(c) ==
    /\ At(c, "wait") /\ task[call[c].n] = "gone"
    /\ Goto(c, "del_phy")
    /\ UNCHANGED <<isRunning, ctx, task, started, inited, desc, phy, phyHdl>>

Save(c) ==
    /\ At(c, "save")
    /\ phyHdl' = call[c].phy
    /\ call' = [call EXCEPT ![c] = NoCall]
    /\ UNCHANGED <<isRunning, ctx, task, started, inited, desc, phy>>

DelPhy(c) ==
    /\ At(c, "del_phy")
    /\ phy' = (phy /\ ~call[c].phy)
    /\ call' = [call EXCEPT ![c] = NoCall]
    /\ UNCHANGED <<isRunning, ctx, task, started, inited, desc, phyHdl>>

-----------------------------------------------------------------------------
(* tinyusb_device_task. *)

Step(n, from, to) == task[n] = from /\ task' = [task EXCEPT ![n] = to]

CheckInited(n) ==
    /\ Step(n, "begin", IF inited THEN "del" ELSE "set")
    /\ UNCHANGED <<isRunning, ctx, started, inited, desc, phy, phyHdl, call>>

\* tinyusb_descriptors_set, which this build cannot fail.
DescriptorsSet(n) ==
    /\ Step(n, "set", "init") /\ desc' = n
    /\ UNCHANGED <<isRunning, ctx, started, inited, phy, phyHdl, call>>

RhportInit(n) ==
    /\ \/ Step(n, "init", "publish") /\ inited' = TRUE
       \/ Step(n, "init", "del") /\ UNCHANGED inited
    /\ UNCHANGED <<isRunning, ctx, started, desc, phy, phyHdl, call>>

GiveUp(n) ==
    /\ Step(n, "del", "gone") /\ isRunning' = FALSE
    /\ UNCHANGED <<ctx, started, inited, desc, phy, phyHdl, call>>

Publish(n) ==
    /\ Step(n, "publish", "notify") /\ ctx' = n
    /\ UNCHANGED <<isRunning, started, inited, desc, phy, phyHdl, call>>

\* What the descriptor callbacks answer the host from, until it is set again.
Described == desc

\* It is in tud_task's loop from here on.
Notify(n) ==
    /\ Step(n, "notify", "loop")
    /\ call' = [c \in Callers |->
                  IF call[c].n = n /\ At(c, "wait")
                    THEN [call[c] EXCEPT !.at = "save"] ELSE call[c]]
    /\ UNCHANGED <<isRunning, ctx, started, inited, desc, phy, phyHdl>>

-----------------------------------------------------------------------------
(* tinyusb_driver_uninstall. *)

StopTake(c) ==
    /\ At(c, "idle") /\ ctx # 0
    /\ ctx' = 0 /\ isRunning' = FALSE
    /\ call' = [call EXCEPT ![c] = [at |-> "delete", n |-> ctx, phy |-> FALSE]]
    /\ UNCHANGED <<task, started, inited, desc, phy, phyHdl>>

StopDelete(c) ==
    /\ At(c, "delete")
    /\ task' = [task EXCEPT ![call[c].n] = "gone"] /\ Goto(c, "teardown")
    /\ UNCHANGED <<isRunning, ctx, started, inited, desc, phy, phyHdl>>

StopTeardown(c) ==
    /\ At(c, "teardown")
    /\ inited' = FALSE
    /\ IF inited THEN Goto(c, "phy") ELSE call' = [call EXCEPT ![c] = NoCall]
    /\ UNCHANGED <<isRunning, ctx, task, started, desc, phy, phyHdl>>

StopPhy(c) ==
    /\ At(c, "phy")
    /\ phy' = (phy /\ ~phyHdl) /\ phyHdl' = FALSE
    /\ call' = [call EXCEPT ![c] = NoCall]
    /\ UNCHANGED <<isRunning, ctx, task, started, inited, desc>>

StackNext ==
    \/ \E c \in Callers :
         \/ Install(c) \/ Start(c) \/ Create(c) \/ TimedOut(c) \/ Save(c) \/ DelPhy(c)
         \/ StopTake(c) \/ StopDelete(c) \/ StopTeardown(c) \/ StopPhy(c)
    \/ \E n \in Installs :
         \/ CheckInited(n) \/ DescriptorsSet(n) \/ RhportInit(n) \/ GiveUp(n)
         \/ Publish(n) \/ Notify(n)

-----------------------------------------------------------------------------

\* The host is served by one task at a time, and with the descriptors of that
\* task's installation: two installations never bring the stack up side by
\* side, and none disturbs one that runs, however installing and uninstalling
\* overlap.  ("Task shouldn't be running", tinyusb_task.c:116.)
OneStack ==
    \A n \in Installs : task[n] \in {"publish", "notify", "loop"} =>
        /\ inited /\ Described = n
        /\ \A m \in Installs \ {n} : task[m] \notin {"set", "init", "publish", "notify", "loop"}
=============================================================================
