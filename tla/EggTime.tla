------------------------------- MODULE EggTime -------------------------------
(***************************************************************************)
(* cut-n-paste/egg-time.h: a struct timespec and the microseconds it has.  *)
(***************************************************************************)
EXTENDS Integers

CONSTANTS
  NsecPerUsec,  \* 1000
  UsecPerSec    \* G_USEC_PER_SEC

ASSUME TimeAssumption ==
  /\ NsecPerUsec \in Nat \ {0}
  /\ UsecPerSec \in Nat \ {0}

NsecPerSec == NsecPerUsec * UsecPerSec

Timespec(sec, nsec) == [sec |-> sec, nsec |-> nsec]
Nsec(ts) == ts.sec * NsecPerSec + ts.nsec

timespec_subtract(x, y) ==
  IF x.nsec < y.nsec
  THEN Timespec(x.sec - y.sec - 1, x.nsec - y.nsec + NsecPerSec)
  ELSE Timespec(x.sec - y.sec, x.nsec - y.nsec)

\* faulty: a second that is taken away and not added
NoCarry(x, y) ==
  IF x.nsec + y.nsec > NsecPerSec
  THEN Timespec(x.sec + y.sec, x.nsec + y.nsec - NsecPerSec)
  ELSE Timespec(x.sec + y.sec, x.nsec + y.nsec)

\* The comparison lets a whole second of nanoseconds stand.
timespec_add(x, y) ==
  IF x.nsec + y.nsec > NsecPerSec
  THEN Timespec(x.sec + y.sec + 1, x.nsec + y.nsec - NsecPerSec)
  ELSE Timespec(x.sec + y.sec, x.nsec + y.nsec)

\* In 64 bits: a time before the Epoch becomes one far in the future.
timespec_to_usec(ts, word) ==
  (ts.sec * UsecPerSec + ts.nsec \div NsecPerUsec) % word

timespec_from_usec(u) ==
  Timespec(u \div UsecPerSec, (u % UsecPerSec) * NsecPerUsec)
==============================================================================
