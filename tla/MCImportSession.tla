--------------------------- MODULE MCImportSession ---------------------------
(* Two folders, both pinned: a third request can meet one running import    *)
(* and one queued folder.                                                   *)
EXTENDS ImportSession

MCPinned == <<"music", "torrents">>
=============================================================================
