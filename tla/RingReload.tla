----------------------------- MODULE RingReload ------------------------------
(* The undo ring read back from a .c64rering file beside the one it was    *)
(* written from (delta_ring.rs to_dump, from_dump).                        *)
EXTENDS RingQueries

Loaded == INSTANCE RingQueries
    WITH entries    <- LoadedEntries,
         writes     <- LoadedWrites,
         entry_head <- Len(Dump),
         write_head <- LoadedWriteHead

(* A copy taken while nothing undone is ahead names the same writers of    *)
(* every address and would undo the same instruction next, whatever the    *)
(* ring wrapped and undid before: from_dump re-lays the same history.      *)
ReloadAnswersAlike ==
    (CaughtUp /\ ~in_flight) =>
        /\ \A a \in Addr, limit \in 1 .. MaxHits :
              Loaded!WhoWrote(a, limit) = WhoWrote(a, limit)
        /\ entry_head > 0 =>
              /\ Loaded!Newest.pre = Newest.pre
              /\ Loaded!WritesFor(Loaded!Newest) = WritesFor(Newest)

(* The ring and its copy answer with what retired (who_wrote, to_dump,     *)
(* from_dump).                                                             *)
AnswersAreHistory == WhoWroteExact /\ ReloadAnswersAlike

(* A miss on a reloaded ring that is not reported as exhaustion means what *)
(* it means on the source: nothing ever wrote the address.                 *)
LoadedMissIsGenuine ==
    (CaughtUp /\ ~in_flight) =>
        \A a \in Addr :
            (Loaded!WhoWrote(a, 1) = << >> /\ ~Loaded!RingExhausted(FALSE))
                => TrueWriters(a, Len(log)) = << >>
=============================================================================
