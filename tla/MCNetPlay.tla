----------------------------- MODULE MCNetPlay -----------------------------
(* NetPlay with a different reading for every wiimote and frame. *)
EXTENDS NetPlay

MCInput(w, f) == <<w, f>>
=============================================================================
