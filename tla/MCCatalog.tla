----------------------------- MODULE MCCatalog -----------------------------
(***************************************************************************)
(* One Steam game whose .acf name and manifest title differ, a folder whose*)
(* name is another spelling of the manifest's title, and a hand-registered *)
(* game under that title.                                                  *)
(***************************************************************************)
EXTENDS Catalog, TLC

CONSTANTS d1, d2, app, raw, listed, spelt, own, shared, stray

MCNorm == raw :> 1 @@ listed :> 2 @@ spelt :> 2
MCRawName == app :> raw
MCManifest == listed :> app
MCInstallDir == listed :> {}
MCInstalled == [d \in Device |-> {app}]
MCFolder == [d \in Device |-> {spelt}]
MCCustomTitle == [d \in Device |-> IF d = d1 THEN {listed} ELSE {}]
MCBasename == own :> 1 @@ shared :> 2 @@ stray :> 2
MCExesIn == app :> {own, shared} @@ raw :> {}
            @@ listed :> {stray} @@ spelt :> {stray}
=============================================================================
