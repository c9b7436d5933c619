---- MODULE MCReselection ----
(* The American Thanksgiving of 2026, one symbol, the sources a few at a time. *)
EXTENDS Reselection
Night == {"regular", "overnight"}
SomeSources == {{"themes"}, {"auto", "volume"}, {"swing"}}

At(d, hour, min) == Date(2026, 11, d) * Minutes + hour * Hour + min

\* Wednesday's regular market and the hours after it, the holiday, which begins that
\* evening, the night before Friday's market, and that market.
Thanksgiving == <<At(25, 15, 0), At(25, 21, 30), At(26, 1, 30), At(27, 1, 30), At(27, 14, 30)>>

\* The closings the exchange announced, but for those at short notice.
Announced(y, days) == Holidays(y) = {Date(y, md[1], md[2]) : md \in days}

ASSUME HolidaysAsAnnounced ==
    /\ Announced(2024, {<<1, 1>>, <<1, 15>>, <<2, 19>>, <<3, 29>>, <<5, 27>>, <<6, 19>>,
                        <<7, 4>>, <<9, 2>>, <<11, 28>>, <<12, 25>>})
    /\ Announced(2025, {<<1, 1>>, <<1, 20>>, <<2, 17>>, <<4, 18>>, <<5, 26>>, <<6, 19>>,
                        <<7, 4>>, <<9, 1>>, <<11, 27>>, <<12, 25>>})
    /\ Announced(2026, {<<1, 1>>, <<1, 19>>, <<2, 16>>, <<4, 3>>, <<5, 25>>, <<6, 19>>,
                        <<7, 3>>, <<9, 7>>, <<11, 26>>, <<12, 25>>})
    /\ Announced(2027, {<<1, 1>>, <<1, 18>>, <<2, 15>>, <<3, 26>>, <<5, 31>>, <<6, 18>>,
                        <<7, 5>>, <<9, 6>>, <<11, 25>>, <<12, 24>>})

ASSUME PhasesOfThanksgiving ==
    Phases = <<"regular", "afterhours", "closed", "overnight", "regular">>
====
