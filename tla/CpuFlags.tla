------------------------------ MODULE CpuFlags ------------------------------
(***************************************************************************)
(* libavutil/cpu.c: the flags of the processor, an atomic variable that is *)
(* -1 until the first call of av_get_cpu_flags fills it with what it       *)
(* detects, and that other calls store into at the same time.  Flags are a *)
(* set; detecting them reads the processor and gives the same every time.  *)
(***************************************************************************)
EXTENDS Naturals

CONSTANTS Threads,
          Flags, Detected,     \* every flag, and those of this processor
          X86, Mmx, ImplyMmx,  \* ARCH_X86, AV_CPU_FLAG_MMX and what comes with it
          Unset                \* -1, which has every bit set

VARIABLES flags,      \* cpu_flags
          detecting,  \* threads between load and store of av_get_cpu_flags
          forced,     \* what was last stored on purpose, Unset if nothing was
          overtaken   \* threads that were detecting at that time

vars == <<flags, detecting, forced, overtaken>>

Init == /\ flags = Unset /\ detecting = {} /\ forced = Unset /\ overtaken = {}

Idle(t) == t \notin detecting

Stores(value) == /\ flags' = value /\ forced' = value /\ overtaken' = detecting
                 /\ UNCHANGED detecting

\* av_force_cpu_flags.
Force(t, arg) ==
    /\ Idle(t)
    /\ Stores(IF X86 /\ arg \intersect ImplyMmx # {} THEN arg \union {Mmx} ELSE arg)

\* av_force_cpu_flags(-1).
Unforce(t) == Idle(t) /\ Stores(Unset)

\* av_set_cpu_flags_mask.
SetMask(t, mask) == Idle(t) /\ Stores(Detected \intersect mask)

\* Variant for mutation: av_get_cpu_flags detects whatever it has loaded.
GetLoadAlways(t) ==
    /\ Idle(t)
    /\ detecting' = detecting \union {t} /\ UNCHANGED <<flags, forced, overtaken>>

\* av_get_cpu_flags: the load, and its end when the flags are known.
GetLoad(t) ==
    /\ Idle(t)
    /\ detecting' = IF flags = Unset THEN detecting \union {t} ELSE detecting
    /\ UNCHANGED <<flags, forced, overtaken>>

\* av_get_cpu_flags: the detection and the store.
GetStore(t) ==
    /\ t \in detecting
    /\ flags' = Detected
    /\ detecting' = detecting \ {t}
    /\ UNCHANGED <<forced, overtaken>>

Next == \E t \in Threads :
    \/ \E arg \in SUBSET Flags : Force(t, arg) \/ SetMask(t, arg)
    \/ Unforce(t) \/ GetLoad(t) \/ GetStore(t)

Spec == Init /\ [][Next]_vars
-----------------------------------------------------------------------------
(***************************************************************************)
(* Properties                                                              *)
(***************************************************************************)
\* Forced flags stay until others are forced, if no first detection was under
\* way when they were (cpu.c:98).
ForcedFlagsStay == forced # Unset /\ overtaken = {} => flags = forced
=============================================================================
