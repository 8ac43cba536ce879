------------------------------ MODULE MCSources ------------------------------
(***************************************************************************)
(* A configuration in a file or on a server.  One version lists a source    *)
(* beside it twice, as the shipped zone files are, and one on a server; the *)
(* other lists the first as something else, and a file elsewhere.  The      *)
(* one on the server is beside the configuration if that is there too.      *)
(* The configuration and the file beside it may be missing, and any file    *)
(* may be there and not be readable.                                        *)
(***************************************************************************)
EXTENDS Sources, TLC

MCUrl       == {"http conf", "http list"}
MCFile      == {"file conf", "file list", "file far"}
MCConfigUrl == {"http conf", "file conf"}
MCBeside    == {"./list"}
MCPath      == MCBeside \cup {"far url", "far file"}
MCJoined ==
    "http conf" :> ("./list" :> "http list") @@ "file conf" :> ("./list" :> "file list")
MCParsed    == "far url" :> "http list" @@ "far file" :> "file far"

MCText == {"conf1", "conf2", "rules", "404"}
MCHolds ==
    "http conf" :> {"conf1", "conf2", None} @@ "http list" :> {"rules", None} @@
    "file conf" :> {"conf1", "conf2", None, Unreadable} @@
    "file list" :> {"rules", None, Unreadable} @@ "file far" :> {"rules", Unreadable}
MCRawConfig ==
    [t \in MCText |-> IF t \in {"rules", "404"} THEN None ELSE
        IF t = "conf1" THEN [blacklist |-> <<"far url">>, whitelist |-> <<"./list">>,
                             overrides |-> <<"./list">>]
        ELSE [blacklist |-> <<"./list", "far file">>, whitelist |-> <<>>,
              overrides |-> <<>>]]
=============================================================================
