----------------------------- MODULE MCControl -----------------------------
(* A simulation of two days, a queue of three entries, and the settings and
   accounts of the definitions below. *)
EXTENDS Control

Domestic ==
    [mode |-> "live", style |-> "fast", allocation |-> 10, positions |-> 2,
     stop |-> 3500, profit |-> 8000, daily |-> 3000, weekly |-> 6000, losses |-> 3,
     trades |-> 5, commission |-> 15, tax |-> 150, scanStart |-> 9 * 60 + 30,
     scanEnd |-> 14 * 60, close |-> 15 * 60, grace |-> 10, nights |-> 1,
     entries |-> {"breakout"}, exits |-> {"fixed"}, preflight |-> TRUE,
     themes |-> {"s"}]

Usual ==
    [legible |-> TRUE,
     domestic |-> Domestic,
     crypto |-> [mode |-> "paper", style |-> "normal", stop |-> 3500, profit |-> 8000,
                 commission |-> 40, entries |-> {"breakout"}, exits |-> {"fixed"}],
     sizing |-> [min |-> 60, max |-> 140, initial |-> 50, adds |-> 2, first |-> 50,
                 second |-> 50]]

\* A quick live one and a simulation; and what is refused: a close that comes too late,
\* a style whose profit does not pay a higher tax, no stop for crypto.
MCDrafts ==
    [live  |-> Usual,
     sim   |-> [Usual EXCEPT !.domestic.mode = "sim", !.domestic.style = "normal"],
     late  |-> [Usual EXCEPT !.domestic.close = 15 * 60 + 15],
     scalp |-> [Usual EXCEPT !.domestic.style = "scalp", !.domestic.tax = 1500],
     bare  |-> [Usual EXCEPT !.crypto.exits = {"trailing"}]]

Clear ==
    [fails |-> {}, open |-> TRUE, cash |-> 20, orders |-> {}, conditional |-> {},
     listed |-> {"s", "t"}, book |-> {}]

\* An order of an engine that died, which holds some of the cash.
Stray == [Clear EXCEPT !.orders = {[symbol |-> "t", ours |-> TRUE]}, !.cash = 5]

MCAccounts == {Clear, Stray}
=============================================================================
