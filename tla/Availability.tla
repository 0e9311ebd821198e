----------------------------- MODULE Availability -----------------------------
(***************************************************************************)
(* app/tools/check_availability.py: the bookable slots of a window.  A     *)
(* date is a day number, day 0 being a Monday; a slot starts on the hour.  *)
(***************************************************************************)
EXTENDS Integers, Sequences

Weekday(d) == d % 7
Hours == {9, 11, 14, 16}
Closes == 18

\* t.hour * 60 + t.minute + duration <= 18 * 60
Fits(h, duration) == h * 60 + duration <= Closes * 60

\* The list that a time adds to the comprehension.
Kept(d, h, duration) ==
    IF Fits(h, duration) THEN <<[day |-> d, hour |-> h]>> ELSE <<>>

\* _fake_slots()
FakeSlots(d, duration) ==
    IF Weekday(d) >= 5
      THEN <<>>
      ELSE Kept(d, 9, duration) \o Kept(d, 11, duration)
              \o Kept(d, 14, duration) \o Kept(d, 16, duration)

\* Fault: the last day of the window is left out.
SlotsBefore(from, to, duration) ==
    LET extend[cur \in from..to] ==
          IF cur >= to THEN <<>>
                       ELSE FakeSlots(cur, duration) \o extend[cur + 1]
    IN extend[from]

\* The while loop from from_date to to_date.
Slots(from, to, duration) ==
    LET extend[cur \in from..to + 1] ==
          IF cur > to THEN <<>>
                      ELSE FakeSlots(cur, duration) \o extend[cur + 1]
    IN extend[from]

\* The handler refuses a window that ends before it starts or is too long.
BadWindow(from, to) == to < from \/ to - from > 14

-----------------------------------------------------------------------------
\* What a caller may be offered: working days of the window, and times at
\* which the appointment is over when the office closes.
Bookable(from, to, duration) ==
    {s \in [day : from..to, hour : Hours] :
        /\ Weekday(s.day) \in 0..4
        /\ s.hour + (duration + 59) \div 60 <= Closes}

Earlier(s, t) == s.day < t.day \/ (s.day = t.day /\ s.hour < t.hour)
=============================================================================
