--------------------------------- MODULE Rtc ----------------------------------
(***************************************************************************)
(* The clock chip as kernel_driver_hub/src/driver_hub/cmos.rs reads it:    *)
(* one register after the other, while the chip goes on.  A call is short  *)
(* of a second, so the time changes at most once in it: just before the    *)
(* read numbered tick, after a while in which the chip says that it is     *)
(* about to change.  The chip is set to keep bytes in BCD or in binary and *)
(* hours up to 12 or up to 24, and has a register for the century or not.  *)
(* Times are <<second, minute, hour, day, month, year, century>>.          *)
(***************************************************************************)
LOCAL INSTANCE Integers
LOCAL INSTANCE Sequences
LOCAL INSTANCE SequencesExt
LOCAL INSTANCE FiniteSetsExt

\* A number as the chip keeps it.  Up to 12, hours are 12, 1 .. 11 twice, the
\* second time with bit 7 set; a register that is not there reads as 0.
Kept(v, mode) == IF mode.bcd THEN 16 * (v \div 10) + (v % 10) ELSE v

KeptHour(h, mode) ==
    IF mode.h24 THEN Kept(h, mode)
    ELSE Kept(IF h % 12 = 0 THEN 12 ELSE h % 12, mode) + (IF h >= 12 THEN 128 ELSE 0)

Bytes(time, mode) ==
    [i \in 1 .. 7 |-> CASE i = 3 -> KeptHour(time[3], mode)
                        [] i = 7 -> IF mode.century THEN Kept(time[7], mode) ELSE 0
                        [] OTHER -> Kept(time[i], mode)]

\* The chip: [before, after, tick, notice, mode].
Showing(chip, n) == IF n < chip.tick THEN chip.before ELSE chip.after
Register(chip, n, i) == Bytes(Showing(chip, n), chip.mode)[i]
Updating(chip, n) == n \in chip.tick - chip.notice .. chip.tick - 1

bcd_to_binary(v, is_bcd) == IF is_bcd THEN (v \div 16) * 10 + (v % 16) ELSE v

\* The hour: bit 7 is taken off before it is asked for.
HourOf(byte, mode) ==
    LET hour == bcd_to_binary(byte % 128, mode.bcd)
        pm == hour >= 128
    IN  CASE ~mode.h24 /\ pm /\ hour < 12 -> hour + 12
          [] ~mode.h24 /\ ~pm /\ hour = 12 -> 0
          [] OTHER -> hour

CenturyOf(byte, mode) == IF byte # 0 THEN bcd_to_binary(byte, mode.bcd) * 100 ELSE 2000

\* What an attempt makes of the bytes it read.
Converted(bytes, mode) ==
    [i \in 1 .. 7 |-> CASE i = 3 -> HourOf(bytes[3], mode)
                        [] i = 7 -> CenturyOf(bytes[7], mode)
                        [] OTHER -> bcd_to_binary(bytes[i], mode.bcd)]

Attempts == 5
Registers == 7

\* Mutant of Agrees: the first reading is returned.
AgreesAtOnce(s, current) == TRUE

Agrees(s, current) == current = s.last

\* One attempt, which begins with the read numbered s.n; after the registers it
\* reads the status of the chip.
Attempt(s, chip) ==
    IF s.time # <<>> THEN s
    ELSE IF Updating(chip, s.n) THEN [s EXCEPT !.n = @ + 1]
    ELSE LET current == Converted([i \in 1 .. Registers |-> Register(chip, s.n + i, i)], chip.mode) IN
         [n |-> s.n + Registers + 2, last |-> current, from |-> s.n,
          time |-> IF Agrees(s, current) THEN current ELSE <<>>]

read_rtc_time(chip) ==
    FoldLeft(LAMBDA s, k : Attempt(s, chip), [n |-> 0, last |-> [i \in 1 .. Registers |-> 0], from |-> 0, time |-> <<>>],
             [k \in 1 .. Attempts |-> k])

is_leap_year(y) == (y % 4 = 0 /\ y % 100 # 0) \/ y % 400 = 0

days_in_month(year, m) ==
    IF m \in {4, 6, 9, 11} THEN 30 ELSE IF m = 2 THEN (IF is_leap_year(year) THEN 29 ELSE 28) ELSE 31

\* Days since the start of 2000, from which unix_seconds counts.
unix_days(year, month, day) ==
    MapThenSumSet(LAMBDA y : IF is_leap_year(y) THEN 366 ELSE 365, 2000 .. year - 1)
        + MapThenSumSet(LAMBDA m : days_in_month(year, m), 1 .. month - 1)
        + day - 1
-----------------------------------------------------------------------------
Changes ==
    {<<<<7, 5, 3, 2, 6, 24, 20>>, <<8, 5, 3, 2, 6, 24, 20>>>>,
     <<<<59, 59, 11, 2, 6, 24, 20>>, <<0, 0, 12, 2, 6, 24, 20>>>>,
     <<<<59, 59, 23, 31, 12, 99, 20>>, <<0, 0, 0, 1, 1, 0, 21>>>>}

\* The time the caller should be given for what the clock shows.  A chip without
\* a century is taken to be in the 2000s, and of an hour up to 12 the half of
\* the day is lost (HourOf).
Meant(time, mode) ==
    [time EXCEPT ![3] = IF mode.h24 THEN @ ELSE @ % 12,
                 ![7] = IF mode.century THEN 100 * @ ELSE 2000]

\* However the chip is set, a time that read_rtc_time returns is one the clock
\* showed in the last of its attempts, never a mixture of two, whichever
\* registers the change falls between; and it returns one unless the change is
\* announced or made in the call.  With hours up to 12 that is the time of the
\* morning, also in the afternoon.
ReadingsWhole ==
    \A c \in Changes, mode \in [bcd : BOOLEAN, h24 : BOOLEAN, century : BOOLEAN],
       tick \in 0 .. Attempts * (Registers + 2) + 1, notice \in {0, 1, 4, 40} :
        LET chip == [before |-> c[1], after |-> c[2], tick |-> tick, notice |-> notice, mode |-> mode]
            s == read_rtc_time(chip)
        IN  IF s.time = <<>> THEN \E n \in 0 .. s.n : Updating(chip, n)
            ELSE \E n \in s.from .. s.n - 1 : s.time = Meant(Showing(chip, n), mode)

NextDay(y, m, d) ==
    IF \/ d < 28 \/ (m = 2 /\ d = 28 /\ ((y % 4 = 0 /\ y % 100 # 0) \/ y % 400 = 0))
       \/ (m # 2 /\ d < 30) \/ (m \in {1, 3, 5, 7, 8, 10, 12} /\ d < 31)
    THEN <<y, m, d + 1>> ELSE IF m < 12 THEN <<y, m + 1, 1>> ELSE <<y + 1, 1, 1>>

\* unix_seconds counts every day once: over the ends of months and years, leap
\* years and 2100, which is none, a day is followed by the one with the next
\* number.
DaysCounted ==
    \A y \in {2000, 2001, 2003, 2004, 2099, 2100, 2104}, m \in 1 .. 12, d \in {1, 27, 28, 29, 30, 31} :
        d <= days_in_month(y, m) =>
            LET next == NextDay(y, m, d) IN unix_days(next[1], next[2], next[3]) = unix_days(y, m, d) + 1
=============================================================================
