------------------------------ MODULE KConsole ------------------------------
(***************************************************************************)
(* The life of virtual consoles (pts.c, syscall_misc.c) on several         *)
(* processors: their ring, the active one, and the threads each counts.    *)
(* pts_lock is held by switch_pts alone.  pts_init links a console into    *)
(* the ring without it, and the keyboard handler uses active_pts and its   *)
(* link without it, so each of their writes and reads is a step, and so is *)
(* each of those with which switch_pts takes out a console nobody is       *)
(* counted in.  What the code does with memory it has freed is not         *)
(* modelled: a behaviour ends when a freed console is still pointed at.    *)
(***************************************************************************)
EXTENDS Integers, FiniteSets

CONSTANTS
  USERS,       \* threads
  CONSOLES,    \* memory for consoles
  kernel_pts,  \* the one of the kernel's own threads, and of init
  init,        \* the first thread
  Handler,     \* the keyboard handler
  NoPts        \* a null pointer

ASSUME ConsoleAssumption ==
  /\ IsFiniteSet(USERS) /\ init \in USERS /\ Handler \notin USERS
  /\ kernel_pts \in CONSOLES /\ NoPts \notin CONSOLES

VARIABLES
  live,        \* the consoles that are allocated
  ptsNext,     \* ptsNext[c], ptsPrev[c]: pts_link.next and pts_link.prev;
  ptsPrev,     \* kernel_pts is the head and stays
  active_pts,
  refcount,
  pts,         \* pts[t]: t's console
  arg,         \* arg[t]: the console t makes, or has left
  ptsStep,     \* ptsStep[t]: idle; link, close, count, drop, unlock, switch,
               \* switching in new_console; unlock in exit; dead
  sw,          \* switch_pts under pts_lock: what it does next, for whom, and the
               \* console it switches from
  handler      \* the handler's pts and new_pts

consoleVars ==
  <<live, ptsNext, ptsPrev, active_pts, refcount, pts, arg, ptsStep, sw, handler>>
ringVars == <<live, ptsNext, ptsPrev>>
userVars == <<refcount, pts, arg>>

-----------------------------------------------------------------------------
Unlocked == [step |-> "none", by |-> NoPts, old |-> NoPts]
AtRest   == [pts |-> NoPts, new |-> NoPts]

ConsoleInit ==
  /\ live = {kernel_pts} /\ active_pts = kernel_pts
  /\ ptsNext = [c \in CONSOLES |-> kernel_pts] /\ ptsPrev = ptsNext
  /\ refcount = [c \in CONSOLES |-> IF c = kernel_pts THEN 2 ELSE 0]
  /\ pts = [t \in USERS |-> IF t = init THEN kernel_pts ELSE NoPts]
  /\ arg = [t \in USERS |-> NoPts]
  /\ ptsStep = [t \in USERS |-> IF t = init THEN "idle" ELSE "dead"]
  /\ sw = Unlocked /\ handler = AtRest

PtsGoto(t, s)    == ptsStep' = [ptsStep EXCEPT ![t] = s]
PtsStep(t, s, n) == ptsStep[t] = s /\ PtsGoto(t, n)

\* new_console allocates a console; pts_init reads the tail of the ring.
NewConsole(t) ==
  /\ PtsStep(t, "idle", "link")
  /\ \E c \in CONSOLES \ live :
       /\ live' = live \cup {c}
       /\ ptsNext' = [ptsNext EXCEPT ![c] = kernel_pts]
       /\ ptsPrev' = [ptsPrev EXCEPT ![c] = ptsPrev[kernel_pts]]
       /\ refcount' = [refcount EXCEPT ![c] = 0]
       /\ arg' = [arg EXCEPT ![t] = c]
  /\ UNCHANGED <<active_pts, pts, sw, handler>>

\* queue_insert_tail links the tail to it: the tail that was read, or, when the
\* compiler has it read again, the one of this moment.
NewConsoleLink(t) ==
  /\ PtsStep(t, "link", "close")
  /\ \E last \in {ptsPrev[arg[t]], ptsPrev[kernel_pts]} : ptsNext' = [ptsNext EXCEPT ![last] = arg[t]]
  /\ UNCHANGED <<live, ptsPrev, active_pts, userVars, sw, handler>>

NewConsoleClose(t) ==
  /\ PtsStep(t, "close", "count")
  /\ ptsPrev' = [ptsPrev EXCEPT ![kernel_pts] = arg[t]]
  /\ UNCHANGED <<live, ptsNext, active_pts, userVars, sw, handler>>

\* The maker moves into it.
NewConsoleCount(t) ==
  /\ PtsStep(t, "count", "drop")
  /\ refcount' = [refcount EXCEPT ![arg[t]] = @ + 1]
  /\ pts' = [pts EXCEPT ![t] = arg[t]] /\ arg' = [arg EXCEPT ![t] = pts[t]]
  /\ UNCHANGED <<ringVars, active_pts, sw, handler>>

NewConsoleDrop(t) ==
  /\ PtsStep(t, "drop", "unlock")
  /\ refcount' = [refcount EXCEPT ![arg[t]] = @ - 1]
  /\ UNCHANGED <<ringVars, active_pts, pts, arg, sw, handler>>

\* The lock that is released is in the console that was left.
ConsoleUnlock(t) ==
  /\ PtsStep(t, "unlock", IF pts[t] = NoPts THEN "dead" ELSE "switch")
  /\ arg' = [arg EXCEPT ![t] = NoPts]
  /\ UNCHANGED <<ringVars, active_pts, refcount, pts, sw, handler>>

\* Mutant: a forked thread is not counted.
ConsoleForkUncounted(t, u) ==
  /\ ptsStep[t] = "idle" /\ PtsStep(u, "dead", "idle")
  /\ pts' = [pts EXCEPT ![u] = pts[t]]
  /\ UNCHANGED <<ringVars, active_pts, refcount, arg, sw, handler>>

\* fork and thread_fork: the new thread is counted in its creator's console.
ConsoleFork(t, u) ==
  /\ ptsStep[t] = "idle" /\ PtsStep(u, "dead", "idle")
  /\ pts' = [pts EXCEPT ![u] = pts[t]]
  /\ refcount' = [refcount EXCEPT ![pts[t]] = @ + 1]
  /\ UNCHANGED <<ringVars, active_pts, arg, sw, handler>>

\* kill_current, and destroy_thread when a creation fails.
ConsoleExit(t) ==
  /\ PtsStep(t, "idle", "unlock")
  /\ refcount' = [refcount EXCEPT ![pts[t]] = @ - 1]
  /\ pts' = [pts EXCEPT ![t] = NoPts] /\ arg' = [arg EXCEPT ![t] = pts[t]]
  /\ UNCHANGED <<ringVars, active_pts, sw, handler>>

-----------------------------------------------------------------------------
(* switch_pts, for a thread in new_console or for the handler. *)

SwitchTo(c, who) ==
  /\ sw.step = "none" /\ sw' = [step |-> "check", by |-> who, old |-> active_pts]
  /\ active_pts' = c
  /\ UNCHANGED <<ringVars, userVars, handler>>

NewConsoleSwitch(t) == PtsStep(t, "switch", "switching") /\ SwitchTo(pts[t], t)
TabSwitch           == handler.new # NoPts /\ SwitchTo(handler.new, Handler) /\ UNCHANGED ptsStep

\* Mutant: the console is freed while it counts somebody.
SwitchCheckNone ==
  /\ sw.step = "check" /\ sw' = [sw EXCEPT !.step = "next"]
  /\ UNCHANGED <<ringVars, active_pts, userVars, ptsStep, handler>>

SwitchCheck ==
  /\ sw.step = "check"
  /\ sw' = [sw EXCEPT !.step = IF refcount[sw.old] = 0 THEN "next" ELSE "unlock"]
  /\ UNCHANGED <<ringVars, active_pts, userVars, ptsStep, handler>>

\* queue_detach: t->next->prev, then t->prev->next.
SwitchDetachNext ==
  /\ sw.step = "next" /\ sw' = [sw EXCEPT !.step = "prev"]
  /\ ptsPrev' = [ptsPrev EXCEPT ![ptsNext[sw.old]] = ptsPrev[sw.old]]
  /\ UNCHANGED <<live, ptsNext, active_pts, userVars, ptsStep, handler>>

SwitchDetachPrev ==
  /\ sw.step = "prev" /\ sw' = [sw EXCEPT !.step = "free"]
  /\ ptsNext' = [ptsNext EXCEPT ![ptsPrev[sw.old]] = ptsNext[sw.old]]
  /\ UNCHANGED <<live, ptsPrev, active_pts, userVars, ptsStep, handler>>

SwitchFree ==
  /\ sw.step = "free" /\ sw' = [sw EXCEPT !.step = "unlock"]
  /\ live' = live \ {sw.old}
  /\ UNCHANGED <<ptsNext, ptsPrev, active_pts, userVars, ptsStep, handler>>

SwitchUnlock ==
  /\ sw.step = "unlock" /\ sw' = Unlocked
  /\ IF sw.by = Handler THEN handler' = AtRest /\ UNCHANGED ptsStep
                        ELSE PtsGoto(sw.by, "idle") /\ UNCHANGED handler
  /\ UNCHANGED <<ringVars, active_pts, userVars>>

-----------------------------------------------------------------------------
(* kbd_handler_real, of one processor: it is not interrupted by another key. *)

HandlerRead ==
  /\ handler = AtRest
  /\ handler' = [handler EXCEPT !.pts = active_pts]
  /\ UNCHANGED <<ringVars, active_pts, userVars, ptsStep, sw>>

\* TAB, if it is not forwarded: the console after this one, which is not used again.
Tab ==
  /\ handler.pts # NoPts /\ ptsNext[handler.pts] # handler.pts
  /\ handler' = [pts |-> NoPts, new |-> ptsNext[handler.pts]]
  /\ UNCHANGED <<ringVars, active_pts, userVars, ptsStep, sw>>

\* TAB with no other console; any other key after its last use of pts.
HandlerDone ==
  /\ handler.pts # NoPts /\ handler' = AtRest
  /\ UNCHANGED <<ringVars, active_pts, userVars, ptsStep, sw>>

-----------------------------------------------------------------------------
\* Nothing that is still to be used points at a console that was freed.
Intact ==
  /\ active_pts \in live
  /\ \A t \in USERS : {pts[t], arg[t]} \ {NoPts} \subseteq live
  /\ {handler.pts, handler.new} \ {NoPts} \subseteq live
  /\ \A c \in live : {ptsNext[c], ptsPrev[c]} \subseteq live

ConsoleStep(t) ==
  \/ NewConsole(t) \/ NewConsoleLink(t) \/ NewConsoleClose(t) \/ NewConsoleCount(t)
  \/ NewConsoleDrop(t) \/ ConsoleUnlock(t) \/ NewConsoleSwitch(t)
  \/ ConsoleExit(t) \/ \E u \in USERS : ConsoleFork(t, u)

SwitchStep ==
  SwitchCheck \/ SwitchDetachNext \/ SwitchDetachPrev \/ SwitchFree \/ SwitchUnlock

HandlerStep == HandlerRead \/ Tab \/ TabSwitch \/ HandlerDone

ConsoleNext == Intact /\ (SwitchStep \/ HandlerStep \/ \E t \in USERS : ConsoleStep(t))

ConsoleSpec == ConsoleInit /\ [][ConsoleNext]_consoleVars
-----------------------------------------------------------------------------
(* Properties *)

\* A console is freed only when nobody is settled in it: not the console of a
\* thread that runs there or is about to make another, nor the one a thread leaves
\* for another until it has given up its count.  Whatever switch_pts, new_console,
\* fork, exit and the keyboard handler do to the ring and to active_pts meanwhile,
\* the freed memory is at worst that of a thread that is just moving in, or that
\* has just said it is gone (pts.c:76, syscall_misc.c:174-180).
ConsoleKept ==
  \A t \in USERS :
    /\ ptsStep[t] \in {"idle", "link", "close", "count", "switching"} => pts[t] \in live
    /\ ptsStep[t] = "drop" => arg[t] \in live
=============================================================================
