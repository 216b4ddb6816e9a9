-------------------------------- MODULE RdTime --------------------------------
(***************************************************************************)
(* read_time_rv32 (src/C/rdtime.h, src/C/access_time.c,                    *)
(* src/modules/chardev_user.c) and read_freerun_counter on RV32            *)
(* (src/C/read_counter.h): a 64-bit counter read in two halves, high, low, *)
(* high again, until the two high halves agree; and measure_access_time    *)
(* and run_timing_test, which read it before and after what they measure,  *)
(* many times over.                                                        *)
(*                                                                         *)
(* The counter is a pair of words.  It runs on between any two             *)
(* instructions, and by any amount when the reader is preempted.  It does  *)
(* not wrap around in the life of the machine.  What every module has is   *)
(* named Clock... here, as CharDevProofs extends this module and CharDev.  *)
(***************************************************************************)
EXTENDS Integers

CONSTANTS MaxHigh,  \* the largest value of the high word
          MaxLow    \* the largest value of the low word

ASSUME WordAssumption == MaxHigh \in Nat /\ MaxLow \in Nat

VARIABLES
    now,        \* the counter, <<high, low>>
    step,       \* the next instruction: "rdtimeh", "rdtime", "again", "bne",
                \* or "idle" between the two reads and "done"
    reading,    \* which read this is: 1 is start, 2 is end
    hi, lo, tmp,
    value,      \* what each read returned
    began       \* the counter when each read began (history)

clockVars == <<now, step, reading, hi, lo, tmp, value, began>>

Time == (0 .. MaxHigh) \X (0 .. MaxLow)
Zero == <<0, 0>>

(* The order of times. *)
NotAfter(a, b) == a[1] < b[1] \/ (a[1] = b[1] /\ a[2] <= b[2])

ClockTypeOK == /\ now \in Time
               /\ step \in {"idle", "rdtimeh", "rdtime", "again", "bne", "done"}
               /\ reading \in {1, 2}
               /\ hi \in 0 .. MaxHigh /\ lo \in 0 .. MaxLow /\ tmp \in 0 .. MaxHigh
               /\ value \in [{1, 2} -> Time]
               /\ began \in [{1, 2} -> Time]

ClockInit == /\ now \in Time
             /\ step = "idle" /\ reading = 1
             /\ hi = 0 /\ lo = 0 /\ tmp = 0
             /\ value = [r \in {1, 2} |-> Zero]
             /\ began = [r \in {1, 2} |-> Zero]

(* The counter runs on. *)
Pass == /\ now' \in {t \in Time : NotAfter(now, t)}
        /\ UNCHANGED <<step, reading, hi, lo, tmp, value, began>>

Begin == /\ step = "idle"
         /\ began' = [began EXCEPT ![reading] = now]
         /\ step' = "rdtimeh"
         /\ UNCHANGED <<now, reading, hi, lo, tmp, value>>

ReadHigh == /\ step = "rdtimeh"
            /\ hi' = now[1]
            /\ step' = "rdtime"
            /\ UNCHANGED <<now, reading, lo, tmp, value, began>>

ReadLow == /\ step = "rdtime"
           /\ lo' = now[2]
           /\ step' = "again"
           /\ UNCHANGED <<now, reading, hi, tmp, value, began>>

ReadHighAgain == /\ step = "again"
                 /\ tmp' = now[1]
                 /\ step' = "bne"
                 /\ UNCHANGED <<now, reading, hi, lo, value, began>>

Retry == /\ step = "bne" /\ hi # tmp
         /\ step' = "rdtimeh"
         /\ UNCHANGED <<now, reading, hi, lo, tmp, value, began>>

FinishAlways ==                 \* mutant: no second look at the high word
    /\ step = "bne"
    /\ value' = [value EXCEPT ![reading] = <<hi, lo>>]
    /\ IF reading = 1 THEN reading' = 2 /\ step' = "idle"
                      ELSE reading' = 2 /\ step' = "done"
    /\ UNCHANGED <<now, hi, lo, tmp, began>>

(* The high halves agree: the value is returned.  After the first read comes *)
(* what is measured, then the second read.                                   *)
Finish ==
    /\ step = "bne" /\ hi = tmp
    /\ value' = [value EXCEPT ![reading] = <<hi, lo>>]
    /\ IF reading = 1 THEN reading' = 2 /\ step' = "idle"
                      ELSE reading' = 2 /\ step' = "done"
    /\ UNCHANGED <<now, hi, lo, tmp, began>>

(* run_timing_test and access_time's main measure again and again; the next  *)
(* measurement starts from what the last one left.  What they add up is left *)
(* out.                                                                      *)
Again == /\ step = "done"
         /\ step' = "idle" /\ reading' = 1
         /\ UNCHANGED <<now, hi, lo, tmp, value, began>>

Reader == Begin \/ ReadHigh \/ ReadLow \/ ReadHighAgain \/ Retry \/ Finish \/ Again

ClockNext == Pass \/ Reader

ClockSpec == ClockInit /\ [][ClockNext]_clockVars

(* Which reads have returned. *)
Returned == {r \in {1, 2} : r < reading \/ step = "done"}

-----------------------------------------------------------------------------
(* A returned value is a time between the beginning of its read and now: the *)
(* halves are never of different times, although the low word may wrap       *)
(* between any two instructions.                                             *)
NotTorn == \A r \in Returned : NotAfter(began[r], value[r]) /\ NotAfter(value[r], now)

(* The end of a measurement is not before its start, nor before the moment   *)
(* its second read began: the duration never falls below what was measured   *)
(* took, and end - start does not wrap.                                      *)
EndAfterStart ==
    step = "done" => NotAfter(value[1], began[2]) /\ NotAfter(began[2], value[2])
=============================================================================
