---- MODULE KnowledgeBase ----
(****************************************************************************)
(* The ChromaDB collection and what an engine keeps of it (vector_store.py, *)
(* ConversationEngine.__init__ of pipeline.py): the constructor reads the   *)
(* embedding model and the metadata schema, opens the collection, and the   *)
(* engine uses the three for as long as the process lives.                  *)
(*                                                                          *)
(* The collection belongs to the ingestion pipeline of another repository,  *)
(* which creates, clears and deletes it at any time.  Whatever it publishes *)
(* has a version, so that a value that was read can be named by the version *)
(* it came from.  ChromaDB gives a collection that is created again a new   *)
(* identifier, here its first version, and a client that opened it uses     *)
(* that identifier, not the name.                                           *)
(****************************************************************************)
EXTENDS Integers, Sequences

CONSTANTS
  Models,        \* embedding models
  Dimension,     \* length of the vectors of each model
  ClearsInPlace, \* whether ingestion may clear a collection and fill it anew
  MaxVersions,   \* bound of what ingestion publishes
  NoCollection, NoEngine

ASSUME KnowledgeAssumption ==
  /\ Dimension \in [Models -> Nat \ {0}]
  /\ ClearsInPlace \in BOOLEAN
  /\ MaxVersions \in Nat

VARIABLES
  published,   \* version |-> its collection, model, and whether it has fields
  collection,  \* the version now published, and whether chunks are in it yet
  read,        \* versions that a running constructor has read so far
  engine       \* versions of the engine's model and schema, and what it opened

ingestVars == <<published, collection>>
engineVars == <<read, engine>>
knowledgeVars == <<ingestVars, engineVars>>

NothingRead == [model |-> 0, schema |-> 0]

KnowledgeInit ==
  /\ published = <<>> /\ collection = NoCollection
  /\ read = NothingRead /\ engine = NoEngine

Exists == collection # NoCollection
ModelOf(version) == published[version].model
CollectionOf(version) == published[version].id
Latest == Len(published)

Publish(model, id) ==
  /\ Latest < MaxVersions
  /\ \E fields \in BOOLEAN :
       published' =
         Append(published, [id |-> id, model |-> model, fields |-> fields])
  /\ collection' = [version |-> Latest + 1, filled |-> FALSE]
----------------------------------------------------------------------------
\* Ingestion: a collection is created, or cleared and published anew (which
\* keeps its dimension), filled with the chunks of its model, and deleted.
Create == ~ Exists /\ \E m \in Models : Publish(m, Latest + 1)

Clear ==
  /\ ClearsInPlace /\ Exists
  /\ \E m \in Models :
       /\ Dimension[m] = Dimension[ModelOf(collection.version)]
       /\ Publish(m, CollectionOf(collection.version))

Fill ==
  /\ Exists /\ ~ collection.filled
  /\ collection' = [collection EXCEPT !.filled = TRUE]
  /\ UNCHANGED published

Delete == Exists /\ collection' = NoCollection /\ UNCHANGED published

Ingest == (Create \/ Clear \/ Fill \/ Delete) /\ UNCHANGED engineVars
----------------------------------------------------------------------------
\* The constructor, call by call; each raises if there is no collection.
ReadModel ==
  /\ Exists
  /\ read' = [NothingRead EXCEPT !.model = collection.version]
  /\ UNCHANGED <<ingestVars, engine>>

ReadSchema ==
  /\ Exists
  /\ read' = [read EXCEPT !.schema = collection.version]
  /\ UNCHANGED <<ingestVars, engine>>

OpenCollection ==
  /\ Exists
  /\ engine' = [model |-> read.model, schema |-> read.schema,
                 opened |-> CollectionOf(collection.version)]
  /\ read' = NothingRead
  /\ UNCHANGED ingestVars

\* A constructor that raises, or a process that ends.
ForgetRead == read' = NothingRead /\ UNCHANGED <<ingestVars, engine>>

ForgetEngine == read' = NothingRead /\ engine' = NoEngine /\ UNCHANGED ingestVars

\* The vectors of the query are as long as those in the collection, if any.
SameLength ==
  collection.filled =>
    Dimension[ModelOf(engine.model)] = Dimension[ModelOf(collection.version)]

\* ChromaDB answers a query of the engine: what it opened still exists.
Found ==
  /\ Exists /\ CollectionOf(collection.version) = engine.opened
  /\ SameLength
====
