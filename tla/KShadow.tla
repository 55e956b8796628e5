------------------------------- MODULE KShadow -------------------------------
(***************************************************************************)
(* Shadow page tables of a PV guest (hvcall.c, pv.c): one record per page  *)
(* directory the guest has loaded and not given up, with a copy for its    *)
(* kernel and one, without supervisor pages, for its user mode.  A         *)
(* directory has one table of one page here, and the guest may have        *)
(* written anything there whenever the host reads it: e is the directory's *)
(* entry (NoPd, sup, user, or bad: a table outside the memory), f the      *)
(* table's (NoPd, sup, user).  Other access rights are left out.           *)
(***************************************************************************)
EXTENDS Integers, FiniteSets, SequencesExt

CONSTANTS
  DIRS,         \* the guest's page directories
  SHADOWS,      \* memory for pv_pd_t
  boot,         \* the one of create_boot_pd
  ShadowFrames, \* free frames when the guest starts
  MaxHeld,      \* bound: references the guest takes to one shadow
  BaseAtStart,  \* is the guest's memory at the start of the user frames?
  NoPd          \* a null pointer

ASSUME ShadowAssumption ==
  /\ IsFiniteSet(SHADOWS) /\ boot \in SHADOWS
  /\ ShadowFrames \in Nat /\ NoPd \notin DIRS

VARIABLES
  shadow_pds, \* the list, head first
  active_shadow_pd,
  shadowRefs,
  guest_pd,   \* guest_pd[s]: the directory s stands for; NoPd: garbage
  table,      \* table[s], user_table[s]: none, or a table with the page present
  user_table, \* or not
  free,       \* free frames
  held,       \* held[s]: references by refpd
  loaded      \* ok; strays: loadpd freed records that are still listed; dead

shadowVars == <<shadow_pds, active_shadow_pd, shadowRefs, guest_pd, table,
                user_table, free, held, loaded>>

-----------------------------------------------------------------------------
\* create_boot_pd: one table serves both modes, and guest_pd is not set.
ShadowInit ==
  /\ shadow_pds = <<boot>> /\ active_shadow_pd = boot
  /\ shadowRefs = [s \in SHADOWS |-> IF s = boot THEN 1 ELSE 0]
  /\ guest_pd = [s \in SHADOWS |-> NoPd]
  /\ table = [s \in SHADOWS |-> IF s = boot THEN "present" ELSE "none"]
  /\ user_table = [s \in SHADOWS |-> "none"]
  /\ free = ShadowFrames /\ loaded = "ok" /\ held = [s \in SHADOWS |-> 0]

Mapped(present)  == IF present THEN "present" ELSE "absent"
Count(t)         == IF t = "none" THEN 0 ELSE 1
\* destroy_pd of both directories; the boot record has one.
Frames(s)        == (IF s = boot THEN 1 ELSE 2) + Count(table[s]) + Count(user_table[s])
SumFrames(S)     == Cardinality({q \in S \X (1..4) : q[2] <= Frames(q[1])})

\* pv_die: the process is killed, and destroy_pv frees what the list names.
ShadowDie ==
  /\ loaded' = "dead" /\ free' = free + SumFrames(Range(shadow_pds))
  /\ UNCHANGED <<shadow_pds, active_shadow_pd, shadowRefs, guest_pd, table, user_table, held>>

\* Mutant: the reference of the record that was active is not dropped.
SelectKeep(s, list, base) ==
  /\ active_shadow_pd' = s /\ shadowRefs' = [base EXCEPT ![s] = @ + 1]
  /\ shadow_pds' = list /\ free' = free - (IF s \in Range(shadow_pds) THEN 0 ELSE Frames(s)')

\* pv_select_pd of s, a record of list; base: the counts.
PvSelectPd(s, list, base) ==
  LET old == active_shadow_pd
      up  == [base EXCEPT ![s] = @ + 1]
      n   == up[old] - 1
  IN /\ active_shadow_pd' = s /\ shadowRefs' = [up EXCEPT ![old] = n]
     /\ shadow_pds' = IF n = 0 THEN RemoveAt(list, CHOOSE i \in DOMAIN list : list[i] = old)
                                ELSE list
     /\ free' = (free - (IF s \in Range(shadow_pds) THEN 0 ELSE Frames(s)'))
                + (IF n = 0 THEN Frames(old) ELSE 0)

\* translate_pv_pd: the tables of s, now for d.
Translate(s, d, e, f) ==
  /\ guest_pd' = [guest_pd EXCEPT ![s] = d]
  /\ table' = [table EXCEPT ![s] = IF e = NoPd THEN "none" ELSE Mapped(f # NoPd)]
  /\ user_table' = [user_table EXCEPT ![s] =
       IF e = NoPd THEN "none" ELSE Mapped(e = "user" /\ f = "user")]

\* hvcall_setpd.
SetPd(d, e, f) ==
  \/ /\ e # "bad" /\ free >= (IF e = NoPd THEN 2 ELSE 4)
     /\ \E s \in SHADOWS \ (Range(shadow_pds) \cup {boot}) :
          /\ Translate(s, d, e, f)
          /\ PvSelectPd(s, <<s>> \o shadow_pds, [shadowRefs EXCEPT ![s] = 0])
          /\ held' = [held EXCEPT ![s] = 0]
     /\ UNCHANGED loaded
  \/ /\ e = "bad" \/ free < (IF e = NoPd THEN 2 ELSE 4)
     /\ ShadowDie

\* Mutant: the user mode's table is not given back.
AdjustGoneLeak(s) ==
  /\ table' = [table EXCEPT ![s] = "none"]
  /\ user_table' = [user_table EXCEPT ![s] = "none"]
  /\ free' = free + Count(table[s])

AdjustGone(s) ==
  /\ table' = [table EXCEPT ![s] = "none"]
  /\ user_table' = [user_table EXCEPT ![s] = "none"]
  /\ free' = free + Count(table[s]) + Count(user_table[s])

\* hvcall_adjustpg; the test of the directory's user bit is not made here.
\* A table it got before the failing one stays with the record, to be freed.
AdjustPg(e, f) ==
  LET s == active_shadow_pd
      need == 2 - (Count(table[s]) + Count(user_table[s]))
  IN /\ guest_pd[s] # NoPd   \* the boot record's is garbage
     /\ \/ /\ e = NoPd /\ AdjustGone(s)
           /\ UNCHANGED <<shadow_pds, active_shadow_pd, shadowRefs, guest_pd, held, loaded>>
        \/ /\ e \in {"sup", "user"} /\ free >= need /\ free' = free - need
           /\ table' = [table EXCEPT ![s] = Mapped(f # NoPd)]
           /\ user_table' = [user_table EXCEPT ![s] = Mapped(f = "user")]
           /\ UNCHANGED <<shadow_pds, active_shadow_pd, shadowRefs, guest_pd, held, loaded>>
        \/ (e = "bad" \/ (e # NoPd /\ free < need)) /\ ShadowDie

\* hvcall_refpd, on the active record.
RefPd ==
  /\ held[active_shadow_pd] < MaxHeld
  /\ shadowRefs' = [shadowRefs EXCEPT ![active_shadow_pd] = @ + 1]
  /\ held' = [held EXCEPT ![active_shadow_pd] = @ + 1]
  /\ UNCHANGED <<shadow_pds, active_shadow_pd, guest_pd, table, user_table, free, loaded>>

UnrefPd ==
  \/ /\ shadowRefs[active_shadow_pd] > 1
     /\ shadowRefs' = [shadowRefs EXCEPT ![active_shadow_pd] = @ - 1]
     /\ held' = [held EXCEPT ![active_shadow_pd] = @ - 1]
     /\ UNCHANGED <<shadow_pds, active_shadow_pd, guest_pd, table, user_table, free, loaded>>
  \/ shadowRefs[active_shadow_pd] = 1 /\ ShadowDie

\* hvcall_loadpd: the records before the one it wants are freed, and stay listed;
\* the guest's address is compared as if its memory began at USER_MEM_START.
LoadPd(d) ==
  \/ /\ BaseAtStart
     /\ \E i \in DOMAIN shadow_pds :
          /\ guest_pd[shadow_pds[i]] = d /\ \A j \in 1..(i - 1) : guest_pd[shadow_pds[j]] # d
          /\ PvSelectPd(shadow_pds[i], shadow_pds, shadowRefs)
          /\ loaded' = IF i = 1 THEN loaded ELSE "strays"
     /\ UNCHANGED <<guest_pd, table, user_table, held>>
  \/ /\ BaseAtStart => \A s \in Range(shadow_pds) : guest_pd[s] # d
     /\ loaded' = "strays"
     /\ UNCHANGED <<shadow_pds, active_shadow_pd, shadowRefs, guest_pd, table, user_table, free, held>>

\* hvcall_exit.
ShadowExit == ShadowDie

\* Records loadpd has freed are not followed further.
ShadowNext == loaded = "ok" /\
  (\/ \E d \in DIRS : LoadPd(d)
   \/ \E e \in {NoPd, "sup", "user", "bad"}, f \in {NoPd, "sup", "user"} :
        AdjustPg(e, f) \/ \E d \in DIRS : SetPd(d, e, f)
   \/ RefPd \/ UnrefPd \/ ShadowExit)

ShadowSpec == ShadowInit /\ [][ShadowNext]_shadowVars
-----------------------------------------------------------------------------
\* The active record is listed, every listed one is counted for the guest's
\* references and for being active, and every frame is free or one record's, until
\* loadpd frees listed records (pv.c 180-195, 212-228; hvcall.c 778-801).
ShadowsKept ==
  /\ loaded = "ok" =>
       /\ active_shadow_pd \in Range(shadow_pds)
       /\ \A s \in Range(shadow_pds) :
            shadowRefs[s] = held[s] + (IF s = active_shadow_pd THEN 1 ELSE 0) /\ shadowRefs[s] > 0
       /\ free + SumFrames(Range(shadow_pds)) = ShadowFrames + 2
  /\ loaded = "dead" => free = ShadowFrames + 2
=============================================================================
