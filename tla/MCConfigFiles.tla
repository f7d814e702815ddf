--------------------------- MODULE MCConfigFiles ---------------------------
(* A small instance of ConfigFiles for TLC: two URIs, one of them also with *)
(* a chain, five ports, and four beginnings: a subscription whose nodes are *)
(* in nodes.txt, inline nodes without a pool, a pool that no file knows,    *)
(* and nothing at all.  Renames are refused in two of them; another program *)
(* may hold the second port from the next start on.                         *)
EXTENDS ConfigFiles, TLC

BareOf == "a" :> "a" @@ "b" :> "b" @@ "ac" :> "a"
Defaults(subs) == [ui |-> 0, dav |-> 0, subs |-> subs]
Host(subs, nodes, lines, members, mounted, ports) ==
    [yaml |-> [settings |-> Defaults(subs), nodes |-> nodes], txt |-> lines, pool |-> members,
     refuses |-> mounted, taken |-> ports]
At(r, port) == [route |-> r, port |-> port]
SmallBeginnings == {
    Host(TRUE, <<>>, <<"a", "b">>, <<At("a", 2)>>, TRUE, {}),
    Host(FALSE, <<At("a", 1), At("b", 2)>>, None, <<>>, FALSE, {}),
    Host(FALSE, <<>>, None, <<At("ac", 1)>>, FALSE, {}),
    Host(FALSE, <<>>, None, <<>>, TRUE, {})}
=============================================================================
