-------------------------------- MODULE KVirq --------------------------------
(***************************************************************************)
(* Virtual interrupts of a PV guest (pv.c, hvcall.c): injected at once,    *)
(* or pended and looked for on the way out of the host kernel, in          *)
(* return_to_user.  Hypercalls and system calls come through trap gates:   *)
(* the host is interrupted before, in and after that check.                *)
(***************************************************************************)
EXTENDS Naturals

CONSTANTS
  KEYS,      \* what the keyboard sends
  OtherCpu,  \* may the keyboard interrupt another processor?
  NoArg

VARIABLES
  at,        \* guest; away: scheduled out by a tick; trap: in a handler; check:
             \* in return_to_user; inject: before the request is cleared; out:
             \* past the check; dead
  back,      \* where it was when the tick came
  user,      \* does the guest run its own user mode?
  vif,       \* the guest takes interrupts
  vidt,      \* the entries with a handler
  pending,   \* pending[i]: NoArg, or the argument of a pending request
  asked,     \* asked[i]: NoArg, or the last argument the guest is owed
  late       \* those pended past the check

virqVars == <<at, back, user, vif, vidt, pending, asked, late>>

IRQS     == {"timer", "key"}
VECTORS  == IRQS \cup {"fault", "syscall"}
-----------------------------------------------------------------------------
VirqInit ==
  /\ at = "check" /\ back = NoArg /\ user = FALSE /\ vif = FALSE /\ vidt = {}
  /\ pending = [i \in IRQS |-> NoArg] /\ asked = pending /\ late = {}

PvDie == at' = "dead" /\ UNCHANGED <<back, user, vif, vidt, pending, asked, late>>

\* pv_pend_irq: one slot each, a second request takes the place of the first.
PvPendIrq(i, a) ==
  /\ pending' = [pending EXCEPT ![i] = a] /\ asked' = [asked EXCEPT ![i] = a]
  /\ late' = IF OtherCpu \/ "out" \in {at, back} THEN late \cup {i} ELSE late
  /\ UNCHANGED <<user, vif, vidt>>

\* pv_inject_interrupt, but for the frame: the handler starts masked.
Enter == user' = FALSE /\ vif' = FALSE

\* pv_inject_irq from the timer, that then takes the processor away.
TickInGuest ==
  /\ at = "guest" /\ back' = "check"
  /\ IF ~vif THEN at' = "away" /\ PvPendIrq("timer", 0)
     ELSE IF "timer" \in vidt
     THEN at' = "away" /\ Enter /\ UNCHANGED <<vidt, pending, asked, late>>
     ELSE at' = "dead" /\ UNCHANGED <<user, vif, vidt, pending, asked, late>>

\* The same while the host runs for the guest with interrupts on.
TickInHost ==
  /\ at \in {"trap", "check", "out"} /\ back' = at /\ at' = "away"
  /\ PvPendIrq("timer", 0)

Resume == at = "away" /\ at' = back /\ back' = NoArg
          /\ UNCHANGED <<user, vif, vidt, pending, asked, late>>

\* kbd_handler_real to the guest of the active console; in the guest the
\* handler returns through the check.
Key(k) ==
  /\ at \in {"guest", "away", "trap", "check", "out"} \cup (IF OtherCpu THEN {"inject"} ELSE {})
  /\ PvPendIrq("key", k) /\ UNCHANGED back
  /\ at' = IF at = "guest" /\ ~OtherCpu THEN "check" ELSE at

\* pv_handle_fault: no masking, and straight back.
Fault ==
  /\ at = "guest"
  /\ \/ "fault" \in vidt /\ user' = FALSE
        /\ UNCHANGED <<at, back, vif, vidt, pending, asked, late>>
     \/ "fault" \notin vidt /\ PvDie

\* pv_handle_syscall: from the guest's user mode only; through the protection
\* fault's handler if the guest does not allow the call.
Syscall ==
  /\ at = "guest"
  /\ \/ user /\ at' = "check" /\ (\E v \in {"syscall", "fault"} : v \in vidt) /\ Enter
        /\ UNCHANGED <<back, vidt, pending, asked, late>>
     \/ (~user \/ \E v \in {"syscall", "fault"} : v \notin vidt) /\ PvDie

\* sys_hvcall_real does nothing for the guest's user mode.
Hypercall == at = "guest" /\ at' = (IF user THEN "check" ELSE "trap")
             /\ UNCHANGED <<back, user, vif, vidt, pending, asked, late>>

\* HV_ENABLE, HV_DISABLE.
SetVif(v) == at = "trap" /\ at' = "check" /\ vif' = v
             /\ UNCHANGED <<back, user, vidt, pending, asked, late>>

\* hvcall_iret, or with bad flags; hvcall_exit.
Iret(v, u) == at = "trap" /\ at' = "check" /\ vif' = v /\ user' = u
              /\ UNCHANGED <<back, vidt, pending, asked, late>>
HvExit == at = "trap" /\ PvDie

SetIdt(i) == at = "trap" /\ at' = "check" /\ (\E S \in {{}, {i}} : vidt' = (vidt \ {i}) \cup S)
             /\ UNCHANGED <<back, user, vif, pending, asked, late>>

\* Mutant: the check looks at the timer's request only.
FirstTimer == "timer"

\* The loop's first pending request.
First == IF pending["timer"] # NoArg THEN "timer" ELSE "key"

\* pv_check_pending_irq, with interrupts off on this processor.
PvCheckPendingIrq ==
  /\ at = "check"
  /\ IF ~vif \/ pending[First] = NoArg
     THEN at' = "out" /\ late' = {} /\ UNCHANGED <<back, user, vif, vidt, pending, asked>>
     ELSE IF First \notin vidt THEN PvDie
     ELSE /\ at' = "inject" /\ Enter /\ asked' = [asked EXCEPT ![First] = NoArg]
          /\ late' = {} /\ UNCHANGED <<back, vidt, pending>>

\* Mutant: it forgets all requests, not the one it has injected.
ClearAll == at = "inject" /\ at' = "out" /\ pending' = [i \in IRQS |-> NoArg]
            /\ UNCHANGED <<back, user, vif, vidt, asked, late>>

ClearPending == at = "inject" /\ at' = "out" /\ pending' = [pending EXCEPT ![First] = NoArg]
                /\ UNCHANGED <<back, user, vif, vidt, asked, late>>

IretToGuest == at = "out" /\ at' = "guest"
               /\ UNCHANGED <<back, user, vif, vidt, pending, asked, late>>

VirqNext ==
  \/ TickInGuest \/ TickInHost \/ Resume \/ (\E k \in KEYS : Key(k))
  \/ Fault \/ Syscall \/ Hypercall \/ HvExit
  \/ (\E v \in BOOLEAN : SetVif(v) \/ \E u \in BOOLEAN : Iret(v, u))
  \/ (\E i \in VECTORS : SetIdt(i))
  \/ PvCheckPendingIrq \/ ClearPending \/ IretToGuest

VirqSpec == VirqInit /\ [][VirqNext]_virqVars
-----------------------------------------------------------------------------
\* What was asked of the guest since it last entered that handler is pending,
\* with the last argument (pv.c 322-327, 366-368).
IrqKept == \A i \in IRQS : asked[i] # NoArg => pending[i] = asked[i]

\* A guest that takes interrupts runs with a request pending only if it came past
\* the check, before the iret (sched.c 782-791, hvcall.c 168-173, 228-260).
NotOverlooked ==
  at = "guest" /\ vif => \A i \in IRQS : pending[i] # NoArg => i \in late

\* Interrupts reach the guest (pv.c).
VirqCorrect == IrqKept /\ NotOverlooked
=============================================================================
