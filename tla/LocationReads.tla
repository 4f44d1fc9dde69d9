---------------------------- MODULE LocationReads ----------------------------
(***************************************************************************)
(* What the reader of source locations gives for a parsed file.            *)
(***************************************************************************)
EXTENDS HbcFile, SourceLocations

(* The source locations of a function are those it was compiled with, up   *)
(* to where the stream was cut; a function is complete unless it is the    *)
(* last one and marked corrupt, and an uncut stream has all of them, as    *)
(* far as the cap on functions goes.                                       *)
LocationsAgree(read, written) ==
    /\ <<read.function_index, read.start_line, read.start_column>>
          = <<written.index, written.line, written.column>>
    /\ IsPrefix(read.locations, W!Locations(written))
    /\ ~read.corrupt => read.locations = W!Locations(written)

BelowCap(c) == \A f \in DOMAIN c.debug : Len(c.debug[f].entries) < MaxPcEntries

SourceLocationsReadBack ==
    AsWritten /\ pc = "parsed" /\ content.version \in DebugVersions /\ BelowCap(content) =>
        LET read == source_locations(file, tables.debug, content.version)
        IN  /\ Len(read) <= Len(content.debug)
            /\ \A f \in DOMAIN read :
                  /\ LocationsAgree(read[f], content.debug[f])
                  /\ read[f].corrupt => f = Len(read) /\ content.cut < Len(file.debug.stream)
            /\ content.cut = Len(file.debug.stream) =>
                  Len(read) = Min({Len(content.debug), MaxFunctions})

=============================================================================
