---------------------------- MODULE MCApproxWire ----------------------------
(***************************************************************************)
(* A small instance of ApproxWire: one digit behind the point, ints of     *)
(* five bits, and one or two messages of each type.                        *)
(***************************************************************************)
EXTENDS ApproxWire

MCLetters == <<"A", "b">>

MCSamples ==
    {MakeMessage("HELLO", <<<<"A", "1">>>>, <<>>),
     MakeMessage("COEFF", <<>>, <<-5, 1000, -1000>>),
     MakeMessage("PUT", <<>>, <<0, -5>>),
     MakeMessage("PUT", <<>>, <<-16, 107>>),
     MakeMessage("BAD_PUT", <<>>, <<15, -10>>),
     MakeMessage("PENALTY", <<>>, <<1, 0>>),
     MakeMessage("STATE", <<>>, <<0, -1>>),
     MakeMessage("SCORING", <<<<"b">>, <<"A", "b">>, <<"A">>>>, <<30, 209, 5>>)}

=============================================================================
