----------------------------- MODULE MCDiscovery -----------------------------
(***************************************************************************)
(* Three processes of two apps on two ports, two commands at a time, three  *)
(* in all.  The one id given is the connect id of the first app, and its    *)
(* last part is the executable of the second; a third app matches nothing.  *)
(***************************************************************************)
EXTENDS Discovery, TLC

MCExact(app, id) == app = "todo"
MCBasename(app, id) == app = "notes"

Perms == Permutations(Clis) \union Permutations(Pids) \union Permutations(Ports)
=============================================================================
