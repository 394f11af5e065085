----------------------------- MODULE MCPlaylists -----------------------------
(* One user with two names for playlists: three edits of playlists of the   *)
(* server's own, two with foreign files and a fault, and one edit of a      *)
(* mirrored playlist with a change from outside and a fault.                *)
EXTENDS Playlists

MCNames == {<<1>>, <<2>>}

Bounds(dir, n, e, d, x, f) ==
    [dirs |-> {dir}, ids |-> n, edits |-> e, deletes |-> d, external |-> x, faults |-> f]

MCConfigurations ==
    {Bounds("own", 2, 3, 1, 0, 0), Bounds("own", 2, 2, 1, 0, 2), Bounds("own", 2, 2, 0, 1, 0),
     Bounds("playlist", 4, 1, 1, 1, 1), Bounds("smart", 2, 0, 0, 3, 0)}

MCOneRename == {Bounds("playlist", 2, 1, 0, 1, 0)}
=============================================================================
