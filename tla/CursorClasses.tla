------------------------------ MODULE CursorClasses ----------------------------
(* The twelve cursor classes that read a query's result from the file Athena *)
(* has written: pandas, Arrow, Polars and S3FS, each blocking, on a thread   *)
(* pool, and for asyncio.  Their execute() methods are one procedure (module *)
(* FileCursor) with the differences named here:                              *)
(*   reads     the result set class                                          *)
(*   runs      who waits for the query and builds the result set: the caller,*)
(*             a worker of the cursor's pool (execute() returns a future), or*)
(*             a task that hands the building over to asyncio.to_thread()    *)
(*   unloads   the constructor takes unload=True, execute() may wrap the     *)
(*             statement in UNLOAD                                           *)
(*   keeps     options on chunks that the constructor keeps and passes on    *)
(*   overrides those that execute()'s own keyword arguments replace          *)
(*   raises    a query that did not succeed raises OperationalError; without *)
(*             it the result set shows the state and has no rows             *)
EXTENDS Naturals

PandasCursor ==
  [reads |-> "pandas", runs |-> "caller", unloads |-> TRUE, raises |-> TRUE,
   keeps |-> {"chunksize", "auto"}, overrides |-> {"chunksize"}]

ArrowCursor ==
  [reads |-> "arrow", runs |-> "caller", unloads |-> TRUE, raises |-> TRUE,
   keeps |-> {}, overrides |-> {}]

PolarsCursor ==
  [reads |-> "polars", runs |-> "caller", unloads |-> TRUE, raises |-> TRUE,
   keeps |-> {"chunksize"}, overrides |-> {}]

S3FSCursor ==
  [reads |-> "s3fs", runs |-> "caller", unloads |-> FALSE, raises |-> TRUE,
   keeps |-> {}, overrides |-> {}]

AsyncPandasCursor ==
  [reads |-> "pandas", runs |-> "pool", unloads |-> TRUE, raises |-> FALSE,
   keeps |-> {"chunksize"}, overrides |-> {"chunksize"}]

AsyncArrowCursor ==
  [reads |-> "arrow", runs |-> "pool", unloads |-> TRUE, raises |-> FALSE,
   keeps |-> {}, overrides |-> {}]

AsyncPolarsCursor ==
  [reads |-> "polars", runs |-> "pool", unloads |-> TRUE, raises |-> FALSE,
   keeps |-> {"chunksize"}, overrides |-> {}]

AsyncS3FSCursor ==
  [reads |-> "s3fs", runs |-> "pool", unloads |-> FALSE, raises |-> FALSE,
   keeps |-> {}, overrides |-> {}]

AioPandasCursor ==
  [reads |-> "pandas", runs |-> "task", unloads |-> TRUE, raises |-> TRUE,
   keeps |-> {"chunksize", "auto"}, overrides |-> {"chunksize"}]

AioArrowCursor ==
  [reads |-> "arrow", runs |-> "task", unloads |-> TRUE, raises |-> TRUE,
   keeps |-> {}, overrides |-> {}]

AioPolarsCursor ==
  [reads |-> "polars", runs |-> "task", unloads |-> TRUE, raises |-> TRUE,
   keeps |-> {"chunksize"}, overrides |-> {}]

AioS3FSCursor ==
  [reads |-> "s3fs", runs |-> "task", unloads |-> FALSE, raises |-> TRUE,
   keeps |-> {}, overrides |-> {}]

FileCursorClasses ==
  {PandasCursor, AsyncPandasCursor, AioPandasCursor,
   ArrowCursor, AsyncArrowCursor, AioArrowCursor,
   PolarsCursor, AsyncPolarsCursor, AioPolarsCursor,
   S3FSCursor, AsyncS3FSCursor, AioS3FSCursor}
================================================================================
