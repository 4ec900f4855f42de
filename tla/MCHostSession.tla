--------------------------- MODULE MCHostSession ---------------------------
(* Three trees and two targets: the first target differs between base and   *)
(* edited, and is missing from other; the second only differs in other.     *)
EXTENDS HostSession, TLC

CONSTANTS base, edited, other, button, field, plain, ticked, blank

MCTree == {base, edited, other}
MCTarget == {button, field}

MCFingerprint(shown, target) ==
    IF target = field THEN (IF shown = other THEN ticked ELSE blank)
    ELSE IF shown = base THEN plain
    ELSE IF shown = edited THEN ticked ELSE Gone

\* Connections differ in nothing but their names.
ConnSymmetry == Permutations(Conn)
=============================================================================
