------------------------------ MODULE KVirqProofs ------------------------------
(***************************************************************************)
(* Proofs about KVirq: no interrupt request of a guest is lost or          *)
(* overlooked, for any keys, as long as the keyboard interrupts the        *)
(* guest's own processor.                                                  *)
(***************************************************************************)
EXTENDS KVirq, TLAPS

\* The keyboard interrupts the guest's own processor, and a key is not NoArg.
VirqConstants == OtherCpu = FALSE /\ NoArg # 0 /\ NoArg \notin KEYS

Args == KEYS \cup {0, NoArg}

\* The guest runs next, or now, without another check.
Passed == at \in {"out", "guest"} \/ (at = "away" /\ back = "out")

VirqTypes ==
  /\ at \in {"guest", "away", "trap", "check", "inject", "out", "dead"}
  /\ at = "away" => back \in {"check", "trap", "out"}
  /\ vif \in BOOLEAN
  /\ pending \in [IRQS -> Args] /\ asked \in [IRQS -> Args]

\* Before the injected request is cleared, nobody else has been asked for.
Injecting == at = "inject" => ~vif /\ asked[First] = NoArg

LateOnly == Passed /\ vif => \A i \in IRQS : pending[i] # NoArg => i \in late

VirqInv == VirqTypes /\ IrqKept /\ Injecting /\ LateOnly

LEMMA VirqInit_Inv == VirqInit => VirqInv
  BY DEF VirqInit, VirqInv, VirqTypes, IrqKept, Injecting, LateOnly, Passed, IRQS, Args, First

\* Steps that neither request nor clear anything.
LEMMA QuietStep ==
  ASSUME VirqInv, pending' = pending, asked' = asked,
         at' \in {"guest", "away", "trap", "check", "out", "dead"},
         at' = "away" => back' \in {"check", "trap", "out"},
         vif' \in BOOLEAN,
         Passed' /\ vif' => \A i \in IRQS : pending[i] # NoArg => i \in late'
  PROVE  VirqInv'
  BY DEF VirqInv, VirqTypes, IrqKept, Injecting, LateOnly

\* Steps that request something.
LEMMA PendStep ==
  ASSUME VirqConstants, VirqInv, NEW i \in IRQS, NEW a \in KEYS \cup {0}, PvPendIrq(i, a),
         at' \in {"away", "trap", "check", "out"},
         at' = "away" => back' \in {"check", "trap", "out"},
         Passed' => Passed /\ "out" \in {at, back}
  PROVE  VirqInv'
  <1>1. VirqTypes'
    BY DEF VirqInv, VirqTypes, PvPendIrq, Args
  <1>2. IrqKept'
    BY DEF VirqInv, VirqTypes, IrqKept, PvPendIrq
  <1>3. LateOnly'
    BY DEF VirqInv, VirqTypes, LateOnly, PvPendIrq
  <1>4. QED
    BY <1>1, <1>2, <1>3 DEF VirqInv, Injecting

LEMMA VirqStep == ASSUME VirqConstants, VirqInv, [VirqNext]_virqVars PROVE VirqInv'
  <1>1. CASE TickInGuest
    <2>1. CASE ~vif
      BY <1>1, <2>1, PendStep DEF TickInGuest, IRQS, Passed
    <2>2. CASE vif
      BY <1>1, <2>2, QuietStep DEF TickInGuest, Enter, Passed, VirqInv, VirqTypes
    <2>3. QED
      BY <2>1, <2>2
  <1>2. CASE TickInHost
    BY <1>2, PendStep DEF TickInHost, IRQS, Passed
  <1>3. CASE Resume
    BY <1>3, QuietStep DEF Resume, Passed, VirqInv, VirqTypes, LateOnly
  <1>4. ASSUME NEW k \in KEYS, Key(k) PROVE VirqInv'
    <2>1. PvPendIrq("key", k) /\ back' = back
      BY <1>4 DEF Key
    <2>2. at \in {"guest", "away", "trap", "check", "out"} /\ at' = IF at = "guest" THEN "check" ELSE at
      BY <1>4 DEF Key, VirqConstants
    <2>3. QED
      BY <2>1, <2>2, PendStep DEF IRQS, Passed, VirqInv, VirqTypes
  <1>5. CASE Fault \/ Syscall \/ Hypercall \/ HvExit
    <2>1. /\ at \in {"guest", "trap"} /\ (vif' = vif \/ vif' = FALSE)
          /\ at' = at \/ at' \in {"dead", "check", "trap"}
          /\ back' = back /\ pending' = pending /\ asked' = asked /\ late' = late
      <3>1. CASE Fault \/ HvExit
        BY <3>1 DEF Fault, HvExit, PvDie
      <3>2. CASE Syscall
        <4>1. \/ PvDie
              \/ at' = "check" /\ Enter /\ UNCHANGED <<back, vidt, pending, asked, late>>
          BY <3>2, Zenon DEF Syscall
        <4>2. at = "guest"
          BY <3>2, Zenon DEF Syscall
        <4>3. QED
          BY <4>1, <4>2 DEF PvDie, Enter
      <3>3. CASE Hypercall
        BY <3>3 DEF Hypercall
      <3>4. QED
        BY <1>5, <3>1, <3>2, <3>3
    <2>2. vif' \in BOOLEAN /\ (vif' => vif)
      <3>1. vif \in BOOLEAN
        BY DEF VirqInv, VirqTypes
      <3>2. CASE vif' = vif
        BY <3>1, <3>2
      <3>3. CASE vif' = FALSE
        BY <3>3, Zenon
      <3>4. QED
        BY <2>1, <3>2, <3>3
    <2>3. at' \notin {"away", "out"} /\ (at' = "guest" => at = "guest")
      BY <2>1
    <2>4. Passed' /\ vif' => \A i \in IRQS : pending[i] # NoArg => i \in late'
      BY <2>1, <2>2, <2>3 DEF Passed, VirqInv, LateOnly
    <2>5. QED
      BY <2>1, <2>2, <2>3, <2>4, QuietStep
  <1>6. ASSUME NEW v \in BOOLEAN, NEW u \in BOOLEAN, SetVif(v) \/ Iret(v, u) PROVE VirqInv'
    BY <1>6, QuietStep DEF SetVif, Iret, Passed
  <1>7. ASSUME NEW i \in VECTORS, SetIdt(i) PROVE VirqInv'
    BY <1>7, QuietStep DEF SetIdt, Passed, VirqInv, VirqTypes
  <1>8. CASE PvCheckPendingIrq
    <2>1. CASE ~vif \/ pending[First] = NoArg
      <3>1. vif => \A i \in IRQS : pending[i] = NoArg
        BY <2>1 DEF First, IRQS
      <3>2. QED
        BY <1>8, <2>1, <3>1, QuietStep DEF PvCheckPendingIrq, VirqInv, VirqTypes
    <2>2. CASE vif /\ pending[First] # NoArg /\ First \notin vidt
      BY <1>8, <2>2, QuietStep DEF PvCheckPendingIrq, PvDie, Passed, VirqInv, VirqTypes
    <2>3. CASE vif /\ pending[First] # NoArg /\ First \in vidt
      <3>1. at' = "inject" /\ vif' = FALSE /\ asked' = [asked EXCEPT ![First] = NoArg]
            /\ pending' = pending
        BY <1>8, <2>3 DEF PvCheckPendingIrq, Enter
      <3>2. First \in IRQS /\ First' = First
        BY <3>1 DEF First, IRQS
      <3>3. QED
        BY <3>1, <3>2 DEF VirqInv, VirqTypes, IrqKept, Injecting, LateOnly, Passed, Args
    <2>4. QED
      BY <2>1, <2>2, <2>3 DEF VirqInv, VirqTypes
  <1>9. CASE ClearPending
    <2>1. at = "inject" /\ at' = "out" /\ pending' = [pending EXCEPT ![First] = NoArg]
          /\ UNCHANGED <<back, user, vif, vidt, asked, late>>
      BY <1>9 DEF ClearPending
    <2>2. First \in IRQS /\ asked[First] = NoArg /\ vif = FALSE
      BY <2>1 DEF First, IRQS, VirqInv, Injecting, VirqTypes
    <2>3. QED
      BY <2>1, <2>2 DEF VirqInv, VirqTypes, IrqKept, Injecting, LateOnly, Passed, Args
  <1>10. CASE IretToGuest
    BY <1>10, QuietStep DEF IretToGuest, Passed, VirqInv, VirqTypes, LateOnly
  <1>11. CASE UNCHANGED virqVars
    BY <1>11 DEF virqVars, VirqInv, VirqTypes, IrqKept, Injecting, LateOnly, Passed, First
  <1>12. QED
    BY <1>1, <1>2, <1>3, <1>4, <1>5, <1>6, <1>7, <1>8, <1>9, <1>10, <1>11 DEF VirqNext

\* No interrupt requested of a guest is lost or overwritten by another one's
\* clearing, and a guest that takes interrupts does not run past a request that was
\* there at its check (pv_inject_irq, pv_check_pending_irq).
THEOREM InterruptsKept == ASSUME VirqConstants PROVE VirqSpec => []VirqCorrect
  <1>1. VirqInit => VirqInv
    BY VirqInit_Inv
  <1>2. VirqInv /\ [VirqNext]_virqVars => VirqInv'
    BY VirqStep
  <1>3. VirqInv => VirqCorrect
    BY DEF VirqInv, VirqCorrect, NotOverlooked, LateOnly, Passed
  <1>4. QED
    BY <1>1, <1>2, <1>3, PTL DEF VirqSpec
=============================================================================
