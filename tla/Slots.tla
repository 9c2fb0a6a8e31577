-------------------------------- MODULE Slots --------------------------------
(* What the components of Components are run with: their parameters, and the  *)
(* variables in which one of them at a time keeps its state. which names it,  *)
(* and v1, v2 ... are its variables, in the order of its INSTANCE.            *)
EXTENDS Naturals, Sequences, FiniteSets

CONSTANTS
  None,
  Parts,         \* the components to run
  Handler,       \* requests of the API and workers, under way at once
  Server,        \* API processes
  Worker,
  Operator,      \* operators' commands and requests under way at once
  Reader,        \* who reads the settings of providers
  Tenant, Root, Administrator,
  MaxFaults,     \* bound: crashes, outages, failing statements, in one behaviour
  \* artifact store
  Artifact, Content, Format, SourceDocument,
  \* console accounts
  User, Password, MaxFailedLogins, Lockout, IdleLimit, MaxSessions, MaxTime,
  \* keys
  ApiKey, CacheTTL, MaxClock,
  \* evaluations
  Evaluation,
  \* limits
  Limited, RequestKey, SubmissionLimit, RunLimit, TokenLimit, ConcurrencyLimit,
  OcrTotal, OcrLimit, Reruns, Period, WorkerCounts, Scenarios, MaxMinutes,
  \* claims
  QueueRow, RunPriority, Starvation, ServiceWindow, Lease, MaxClaims, TickInterval,
  \* pipeline
  ParserReading, ModelReply, Model, Asked, Mode,
  \* API
  ApiRun, Callback, PageSize, Scenes,
  \* schemas
  Name, Draft, SchemaFiles, FileDraft, MaxVersion,
  \* providers
  Master, Configured, Shipped, Priorities,
  \* ingest
  Jobs, MaxPages, ChunkPages, MaxParses, AttemptTimeout, StartTimeout, ParseDeadline, RetryAfters, Drips,
  \* validation
  Drafts, ModelAnswers, UngroundedSeverity,
  \* extraction
  MaxCalls, CallDeadline, MaxCall,
  \* grounding
  Documents, Claims, Num, Den, Short, Budget

VARIABLES which, v1, v2, v3, v4, v5, v6, v7, v8, v9, v10, v11, v12, v13, v14

slots == <<which, v1, v2, v3, v4, v5, v6, v7, v8, v9, v10, v11, v12, v13, v14>>
==============================================================================
