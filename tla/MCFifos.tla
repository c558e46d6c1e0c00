------------------------------- MODULE MCFifos -------------------------------
(***************************************************************************)
(* An instance of AudioFifo, or one of ByteFifo.  What is put in is        *)
(* numbered, so that anything lost, repeated or out of order shows.        *)
(***************************************************************************)
EXTENDS AudioFifo, ByteFifo, FiniteSets

CONSTANTS Kinds

VARIABLES kind, written

mcVars == <<vars, fifoVars, kind, written>>

const_Samples == 0 .. 2

After(nb) == (written + nb) % Cardinality(Samples)
Following(nb) == [i \in 1 .. nb |-> After(i - 1)]

MCInit == Init /\ FifoInit /\ kind \in Kinds /\ written = 0

AudioNext ==
    /\ kind = "audio" /\ UNCHANGED <<kind, fifoVars>>
    /\ \/ \E nb \in 0 .. MaxCall : AudioWrite(Following(nb)) /\ written' = After(nb)
       \/ Others /\ UNCHANGED written

\* A short write puts fewer bytes than it numbered.
ByteNext ==
    /\ kind = "bytes" /\ UNCHANGED <<kind, vars>>
    /\ \/ \E nb \in 0 .. MaxBytes :
             /\ \/ Puts(Following(nb))
                \/ \E answers \in Answers : PutsBy(Following(nb), answers)
             /\ written' = After(returned'.ret)
       \/ FifoOthers /\ UNCHANGED written

MCNext == AudioNext \/ ByteNext

MCSpec == MCInit /\ [][MCNext]_mcVars

\* The fifos without what their next steps do not depend on: where the numbers
\* begin, and where the indices rndx and wndx do, of which the operators of
\* Fifo use the difference only.
Numbered(v) == IF v = Garbage THEN v ELSE (v - written) % Cardinality(Samples)
Renumbered(values) == [i \in DOMAIN values |-> Numbered(values[i])]
Shape(f) == <<f.end, f.rptr, f.wptr, Size(f)>>

View ==
    <<kind,
      IF af = None THEN <<>>
      ELSE <<af.allocated_samples, Renumbered(Held), [p \in 1 .. Planes |-> Shape(af.buf[p])]>>,
      IF fifo = NoFifo THEN <<>> ELSE <<Shape(fifo), Renumbered(Contents(fifo))>> >>
=============================================================================
