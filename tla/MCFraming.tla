----------------------------- MODULE MCFraming -----------------------------
(***************************************************************************)
(* Instances of Framing for TLC: headers of two bytes, reads of four, and  *)
(* scripts that meet every case of handle_message.                         *)
(***************************************************************************)
EXTENDS Framing

Msg(kind, len, pieces) == [kind |-> kind, len |-> len, pieces |-> pieces]

MCScripts == {
    <<>>,
    <<Msg("unchoke", 1, {}), Msg("bitfield", 3, {0, 2}), Msg("have", 2, {3}),
      Msg("have", 2, {9})>>,
    <<Msg("keepalive", 0, {}), Msg("interested", 1, {}), Msg("request", 4, {1}),
      Msg("not_interested", 1, {}), Msg("choke", 1, {})>>,
    <<Msg("bitfield", 2, {1}), Msg("unchoke", 1, {}), Msg("malformed", 3, {}),
      Msg("request", 4, {0})>>,
    <<Msg("malformed", 5, {}), Msg("unchoke", 1, {})>>}

MCShortScripts == {<<Msg("unchoke", 1, {}), Msg("interested", 1, {})>>}
=============================================================================
