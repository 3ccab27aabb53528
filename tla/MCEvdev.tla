------------------------------ MODULE MCEvdev -------------------------------
(* Two files open on one device; rings of four slots; HZ is one jiffy.      *)
EXTENDS Evdev, TLC

ClientSymmetry == Permutations(Clients)
=============================================================================
