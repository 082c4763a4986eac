------------------------------ MODULE MCSignals ------------------------------
(***************************************************************************)
(* Three boards on a backplane: an input and a bus driver on A, an         *)
(* inverter and a bus driver on B, a register on C.  The input enables the *)
(* driver of A directly and that of B one tick later through the inverter, *)
(* so that the bus floats and is in conflict for a tick at each change,    *)
(* the drivers agreeing or not.                                            *)
(* One ground pin lacks board C, as A41 and B41 of the backplane lack a    *)
(* board.                                                                  *)
(***************************************************************************)
EXTENDS Signals, Ics

MCComponents == {"A:PAD", "A:U1", "B:U1", "B:U2", "C:U1"}

Boards == {"A", "B", "C"}

On(name, boards) == {<<b, name>> : b \in boards}

MCNets == On("VCC", Boards) \cup On("GND", Boards) \cup On("EN", Boards)
            \cup On("D", Boards) \cup {<<"A", "IN">>, <<"B", "SEL">>, <<"C", "Q">>}

MCOnPin == [A1 |-> On("VCC", Boards), B1 |-> On("VCC", Boards),
            A12 |-> On("GND", Boards), A41 |-> On("GND", {"A", "B"}),
            A33 |-> On("EN", Boards), A51 |-> On("D", Boards)]

MCPins == DOMAIN MCOnPin
MCVcc == {"A1", "B1"}
MCGnd == {"A12", "A41"}

MCRest == [n \in MCNets |-> FALSE]

MCHeld == [q : BOOLEAN, clk : BOOLEAN]
MCInitial == [c \in MCComponents |-> RegisterOff]

\* The pad holds what it sets on its two networks.
MCSettable(c, h) ==
  IF c = "A:PAD" THEN {[h EXCEPT !.q = ~h.q], [h EXCEPT !.clk = ~h.clk]} ELSE {}

Sets(n, value) == [m \in {n} |-> value]
Nothing == [m \in {} |-> FALSE]

Powered(board, levels) == levels[<<board, "VCC">>] /\ ~levels[<<board, "GND">>]

MCReact(c, h, levels) ==
  CASE c = "A:PAD" -> [held |-> h,
         sets |-> [m \in {<<"A", "EN">>, <<"A", "IN">>} |->
                     IF m = <<"A", "EN">> THEN h.q ELSE h.clk]]
    [] c = "A:U1" -> [held |-> h,
         sets |-> IF Powered("A", levels) /\ ~levels[<<"A", "EN">>]
                    THEN Sets(<<"A", "D">>, levels[<<"A", "IN">>]) ELSE Nothing]
    [] c = "B:U1" -> [held |-> h,
         sets |-> IF Powered("B", levels)
                    THEN Sets(<<"B", "SEL">>, Not(levels[<<"B", "EN">>])) ELSE Nothing]
    [] c = "B:U2" -> [held |-> h,
         sets |-> IF Powered("B", levels) /\ ~levels[<<"B", "SEL">>]
                    THEN Sets(<<"B", "D">>, levels[<<"B", "VCC">>]) ELSE Nothing]
    [] c = "C:U1" ->
         IF ~Powered("C", levels) THEN [held |-> h, sets |-> Nothing]
         ELSE LET next == Register(h, levels[<<"C", "EN">>], levels[<<"C", "D">>])
              IN  [held |-> next, sets |-> Sets(<<"C", "Q">>, next.q)]

=============================================================================
