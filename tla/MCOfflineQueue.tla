--------------------------- MODULE MCOfflineQueue ---------------------------
(***************************************************************************)
(* An instance of OfflineQueue for TLC: agendas that do not meet.          *)
(***************************************************************************)
EXTENDS OfflineQueue, TLC

CONSTANTS f1, f2

Ask(kind, key, body) == [kind |-> kind, key |-> key, body |-> body]

Location == Ask("LOCATION", 1, "-")
Report   == Ask("REPORT", 1, "day")
SameDay  == Ask("REPORT", 2, "day")   \* of the other manager of the store
Hot      == Ask("TELEMETRY", 1, {"TEMPERATURE"})
Hotter   == Ask("TELEMETRY", 2, {"TEMPERATURE"})
HotDamp  == Ask("TELEMETRY", 3, {"HUMIDITY", "TEMPERATURE"})
Photo    == Ask("UPLOAD", 1, "image")
Text     == Ask("UPLOAD", 2, "text")
Short    == Ask("STOCKOUT", 1, "few")
Shorter  == Ask("STOCKOUT", 1, "none")   \* under the key of the other
Breakdown == Ask("EXCEPTION", 1, "-")

AllRequests == {Location, Report, SameDay, Hot, Hotter, HotDamp, Photo, Text,
                Short, Shorter, Breakdown}
AllCallers == Flushes \cup (AllRequests \ {Location, Report})

OneStoreOneTask == {{Location, Report}, {Report, SameDay}, {Hot, Hotter}, {HotDamp},
                    {Photo, Text}, {Short, Shorter, Breakdown}}

Symmetry == Permutations(Threads) \cup Permutations(Flushes)
=============================================================================
