-------------------------- MODULE MCArchiveSource --------------------------
EXTENDS ArchiveSource, TLC

CONSTANTS a, b, world, f1, f2

backup(delay) == [kind |-> "snapshot", server |-> world, flush |-> TRUE, delay |-> delay]
plain(kind) == [kind |-> kind, server |-> world, flush |-> FALSE, delay |-> FALSE]

MCAsks ==
    (a :> {backup(TRUE), backup(FALSE)})
    @@ (b :> {backup(TRUE), plain("snapshot"), plain("cleanup")})
=============================================================================
