----------------------------- MODULE Migrations -----------------------------
(***************************************************************************)
(* The revisions of alembic/versions, each with the statements of its      *)
(* upgrade() and of its downgrade() in their order, and the chain that     *)
(* down_revision makes of them.                                            *)
(***************************************************************************)
EXTENDS Schema

CreateTable(t, columns, nullable, others) ==
    Create({Table(t), Unique(t, "pkey", <<"id">>)} \union columns \union others
           \union {NotNull(t, c.name) : c \in {x \in columns : x.name \notin nullable}})

Plain(t, names) == {Column(t, c) : c \in names}
DefaultedNotNull(t, c) == {Defaulted(t, c), NotNull(t, c)}

LearningsHnsw == Hnsw("learnings", "learnings_embedding_idx", <<"embedding">>)
RepoNameIndex == Index("learnings", "ix_learnings_repo_name", <<"repo_name">>)
ClientNameIndex == Index("learnings", "ix_learnings_client_name", <<"client_name">>)
FilePathIndex == Index("learnings", "ix_learnings_file_path", <<"file_path">>)
CompositeIndex ==
    Index("learnings", "ix_learnings_client_repo_path",
          <<"client_name", "repo_name", "file_path">>)
EmbeddingDegenerate(t) == Generated(t, "embedding_degenerate", <<"embedding">>)
ContentChars == Generated("learnings", "content_chars", <<"content">>)

Resize(t, index, width) ==
    <<Truncate(t), DropIfExists({index}), Retype(t, "embedding", width),
      Create({index})>>

CreateLearnings ==
    [up |-> <<CreateIfAbsent({Extension}),
              CreateTable("learnings",
                  Plain("learnings", {"id", "repo_name", "file_path", "content", "metadata"})
                  \union {Vector("learnings", "embedding", 1024)}, {}, {}),
              Create({RepoNameIndex}),
              Create({LearningsHnsw})>>,
     down |-> <<DropIfExists({LearningsHnsw}), Drop({RepoNameIndex}),
                DropTable("learnings")>>]

SwitchDimension ==
    [up |-> Resize("learnings", LearningsHnsw, 384),
     down |-> Resize("learnings", LearningsHnsw, 1024)]

AddApiKeys ==
    [up |-> <<CreateTable("api_keys",
                  Plain("api_keys", {"id", "key_prefix", "key_hash", "client_name",
                                     "revoked_at"})
                  \union {Defaulted("api_keys", "created_at")},
                  {"revoked_at"},
                  {Unique("api_keys", "key_hash", <<"key_hash">>)})>>,
     down |-> <<DropTable("api_keys")>>]

(* A bug to tell: rows are left without a client.                           *)
FaultAddClientName ==
    [up |-> <<Create({Column("learnings", "client_name")}), Create({ClientNameIndex})>>,
     down |-> <<Drop({ClientNameIndex}), Drop({Column("learnings", "client_name")})>>]

AddClientName ==
    [up |-> <<Create({Column("learnings", "client_name")}),
              Backfill("learnings", "client_name"),
              Create({NotNull("learnings", "client_name")}),
              Create({ClientNameIndex})>>,
     down |-> <<Drop({ClientNameIndex}), Drop({Column("learnings", "client_name")})>>]

AddTimestamps ==
    [up |-> <<Create(DefaultedNotNull("learnings", "created_at")),
              Create(DefaultedNotNull("learnings", "updated_at"))>>,
     down |-> <<Drop({Column("learnings", "updated_at")}),
                Drop({Column("learnings", "created_at")})>>]

AddFilePathIndex ==
    [up |-> <<Create({FilePathIndex})>>, down |-> <<Drop({FilePathIndex})>>]

CompositeLearningsIndex ==
    [up |-> <<Create({CompositeIndex}), Drop({ClientNameIndex}),
              Drop({RepoNameIndex}), Drop({FilePathIndex})>>,
     down |-> <<Create({ClientNameIndex}), Create({RepoNameIndex}),
                Create({FilePathIndex}), Drop({CompositeIndex})>>]

RestoreDimension ==
    [up |-> Resize("learnings", LearningsHnsw, 1024),
     down |-> Resize("learnings", LearningsHnsw, 384)]

ChunkStats ==
    {EmbeddingDegenerate("learnings"), NotNull("learnings", "embedding_degenerate"),
     ContentChars, NotNull("learnings", "content_chars")}

AddStoredChunkStats ==
    [up |-> <<Create(ChunkStats)>>,
     down |-> <<Drop({ContentChars, EmbeddingDegenerate("learnings")})>>]

NotesIdClient == Unique("notes", "uq_notes_id_client", <<"id", "client_name">>)
NotesIdClientScope ==
    Unique("notes", "uq_notes_id_client_scope", <<"id", "client_name", "scope">>)
NoteOfClient ==
    ForeignKey("passages", "fk_passages_note", <<"note_id", "client_name">>,
               "notes", <<"id", "client_name">>)
NoteOfClientScope ==
    ForeignKey("passages", "fk_passages_note", <<"note_id", "client_name", "scope">>,
               "notes", <<"id", "client_name", "scope">>)
ClientNoteIndex ==
    Index("passages", "ix_passages_client_note", <<"client_name", "note_id">>)
TsvIndex == Gin("passages", "ix_passages_tsv", <<"tsv">>)
PassagesHnsw == Hnsw("passages", "passages_embedding_idx", <<"embedding">>)

CreateNotesAndPassages ==
    LET optional == {"name", "description", "type", "provenance_kind", "status",
                     "provenance_date"}
    IN  [up |-> <<CreateTable("notes",
                      Plain("notes", {"id", "client_name", "path_or_uri", "content_hash",
                                      "pipeline_version", "body"} \union optional)
                      \union {Defaulted("notes", c) :
                                 c \in {"scope", "meta", "created_at", "updated_at"}},
                      optional,
                      {NotesIdClient,
                       Unique("notes", "uq_notes_client_scope_path",
                              <<"client_name", "scope", "path_or_uri">>)}),
                  CreateTable("passages",
                      Plain("passages", {"id", "note_id", "client_name", "ordinal",
                                         "heading_path", "content", "tsv"})
                      \union {Vector("passages", "embedding", 1024)},
                      {"heading_path"},
                      {NoteOfClient,
                       Unique("passages", "uq_passages_note_ordinal",
                              <<"note_id", "ordinal">>)}),
                  Create({ClientNoteIndex}), Create({TsvIndex}), Create({PassagesHnsw})>>,
         down |-> <<DropIfExists({PassagesHnsw}), DropIfExists({TsvIndex}),
                    Drop({ClientNoteIndex}), DropTable("passages"), DropTable("notes")>>]

(* A bug to tell: the downgrade undoes the upgrade from its first line.      *)
FaultAddPassageScope ==
    [up |-> <<Create({Column("passages", "scope")}),
              Backfill("passages", "scope"),
              Create({NotNull("passages", "scope"), EmbeddingDegenerate("passages"),
                      NotNull("passages", "embedding_degenerate")}),
              Create({NotesIdClientScope}),
              Drop({NoteOfClient}),
              Create({NoteOfClientScope}),
              Drop({NotesIdClient})>>,
     down |-> <<Create({NotesIdClient}),
                Drop({NotesIdClientScope}),
                Drop({NoteOfClientScope}),
                Create({NoteOfClient}),
                Drop({EmbeddingDegenerate("passages"), Column("passages", "scope")})>>]

AddPassageScope ==
    [up |-> <<Create({Column("passages", "scope")}),
              Backfill("passages", "scope"),
              Create({NotNull("passages", "scope"), EmbeddingDegenerate("passages"),
                      NotNull("passages", "embedding_degenerate")}),
              Create({NotesIdClientScope}),
              Drop({NoteOfClient}),
              Create({NoteOfClientScope}),
              Drop({NotesIdClient})>>,
     down |-> <<Create({NotesIdClient}),
                Drop({NoteOfClientScope}),
                Create({NoteOfClient}),
                Drop({NotesIdClientScope}),
                Drop({EmbeddingDegenerate("passages"), Column("passages", "scope")})>>]

(* A bug to tell: an index 3d80eb22a17d had replaced comes back.            *)
FaultDropLearnings ==
    [up |-> <<DropTable("learnings")>>,
     down |-> <<CreateTable("learnings",
                    Plain("learnings", {"id", "repo_name", "file_path", "content",
                                        "metadata", "client_name"})
                    \union {Vector("learnings", "embedding", 1024),
                            Defaulted("learnings", "created_at"),
                            Defaulted("learnings", "updated_at")},
                    {}, ChunkStats),
                Create({FilePathIndex}),
                Create({LearningsHnsw})>>]

DropLearnings ==
    [up |-> <<DropTable("learnings")>>,
     down |-> <<CreateTable("learnings",
                    Plain("learnings", {"id", "repo_name", "file_path", "content",
                                        "metadata", "client_name"})
                    \union {Vector("learnings", "embedding", 1024),
                            Defaulted("learnings", "created_at"),
                            Defaulted("learnings", "updated_at")},
                    {}, ChunkStats),
                Create({CompositeIndex}),
                Create({LearningsHnsw})>>]

(* Revision n of the chain is built on revision n - 1; 0 is "base".        *)
Chain ==
    <<CreateLearnings, SwitchDimension, AddApiKeys, AddClientName, AddTimestamps,
      AddFilePathIndex, CompositeLearningsIndex, RestoreDimension,
      AddStoredChunkStats, CreateNotesAndPassages, AddPassageScope, DropLearnings>>

HeadRevision == Len(Chain)
Revisions == 0..HeadRevision
=============================================================================
