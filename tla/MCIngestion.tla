---------------------------- MODULE MCIngestion ----------------------------
(***************************************************************************)
(* Small instances of Ingestion for TLC: an article of three chunks that   *)
(* shrinks to one (and grows back), two points per upsert request, and     *)
(* titles of which two lead to one article.                                *)
(***************************************************************************)
EXTENDS Ingestion, TLC

CONSTANTS kafka, redis, kafkaAlias, kafkaTitle, redisTitle, long, short

MCChunkCount == (long :> 3) @@ (short :> 1)

MCResolves ==
    (kafkaTitle :> kafka) @@ (kafkaAlias :> kafka) @@ (redisTitle :> redis)

Option(dry, force, recreate, dim) ==
    [dry |-> dry, force |-> force, recreate |-> recreate, dimension |-> dim]

(* Plain runs with either embedding model, and one of each other kind.     *)
MCOptions ==
    {Option(FALSE, FALSE, FALSE, 1), Option(FALSE, FALSE, FALSE, 2),
     Option(FALSE, FALSE, TRUE, 2), Option(FALSE, TRUE, FALSE, 1),
     Option(TRUE, FALSE, FALSE, 1)}
============================================================================
