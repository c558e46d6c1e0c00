------------------------------ MODULE FirstUse ------------------------------
(***************************************************************************)
(* Threads that use a part of the libraries for the first time at once:    *)
(* the codecs, the formats or the processor's flags.                       *)
(***************************************************************************)
EXTENDS CodecRegistry

CONSTANTS NbDevices, None, Flags, Detected, Mmx, ImplyMmx, Unset

\* The constants of the instances below; -1 is no set of flags.
ASSUME FirstUseAssumption ==
    /\ NbDevices \in Nat
    /\ Detected \subseteq Flags /\ ImplyMmx \subseteq Flags /\ Mmx \in Flags
    /\ \A set \in SUBSET Flags : set # Unset

VARIABLES listed, mutex, once, fnext, registered, fcall, fgot,
          flags, detecting, forced, overtaken

Formats == INSTANCE FormatRegistry
               WITH NbStatic <- NbCodecs, next <- fnext, call <- fcall, got <- fgot

Cpu == INSTANCE CpuFlags WITH X86 <- TRUE

formatVars == <<listed, mutex, once, fnext, registered, fcall, fgot>>
cpuVars    == <<flags, detecting, forced, overtaken>>

firstUseVars == <<vars, formatVars, cpuVars>>

FirstUseInit == Init /\ Formats!Init /\ Cpu!Init

CodecsOnly  == Next /\ UNCHANGED <<formatVars, cpuVars>>
FormatsOnly == Formats!Next /\ UNCHANGED <<vars, cpuVars>>
CpuOnly     == Cpu!Next /\ UNCHANGED <<vars, formatVars>>

FirstUseNext == CodecsOnly \/ FormatsOnly \/ CpuOnly

FirstUseSpec == FirstUseInit /\ [][FirstUseNext]_firstUseVars

\* Walks by either list of codecs, muxers or demuxers are whole, and a codec is
\* given to nobody before its static initialisation.
WalksAreWhole == CodecsReadyBeforeUse /\ CodecWalksAreWhole /\ Formats!FormatWalksAreWhole

ForcedFlagsStay == Cpu!ForcedFlagsStay
=============================================================================
