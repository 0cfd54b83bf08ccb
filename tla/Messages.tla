------------------------------- MODULE Messages -------------------------------
(***************************************************************************)
(* The protobuf messages of the RPC protocol as the compiled code has them *)
(* (generated/rpc.pb.cc).  Each message is stored, copied, cleared,        *)
(* parsed, written, measured, merged and swapped by code that names its    *)
(* fields one by one, or as a stretch of memory, in eight places that have *)
(* to agree.  A definition here is what one group of these functions says: *)
(*   X_Impl   the constructors and Clear: the members of Impl_ in memory,  *)
(*            the ones the copy constructor copies, the ones Clear resets; *)
(*   X_Wire   _InternalParse: the tag it expects for field 1, 2, ... and   *)
(*            the type it reads; _InternalSerialize: what it writes, in    *)
(*            order; ByteSizeLong: the bytes it counts for each tag;       *)
(*   X_Merge  MergeImpl and InternalSwap: the fields they move.            *)
(* Module Codec gives these tables their meaning.                          *)
(***************************************************************************)
EXTENDS Naturals, Sequences

One(type) == [rep |-> FALSE, type |-> type]
Rep(type) == [rep |-> TRUE, type |-> type]
Str       == One("str")
Bool      == One("bool")
Int32     == One("int32")
UInt32    == One("uint32")
UInt64    == One("uint64")
Enum      == One("enum")

I(field, kind)        == [field |-> field, kind |-> kind]
P(field, tag, kind)   == [field |-> field, tag |-> tag, kind |-> kind]
W(num, field, kind)   == [num |-> num, field |-> field, kind |-> kind]
Z(field, bytes, kind) == [field |-> field, bytes |-> bytes, kind |-> kind]

\* Fields handled one by one, and the memory from one member to another (memcpy, memset, memswap).
Each(fields)              == [each |-> fields, span |-> <<>>]
Span(fields, first, last) == [each |-> fields, span |-> <<first, last>>]

-----------------------------------------------------------------------------

RpcError_Impl ==
    [impl  |-> <<I("message", Str), I("code", Enum)>>,
     copy  |-> Each({"message", "code"}), clear |-> Each({"message", "code"})]
RpcError_Wire ==
    [parse |-> <<P("code", 8, Enum), P("message", 18, Str)>>,
     write |-> <<W(1, "code", Enum), W(2, "message", Str)>>,
     size  |-> <<Z("message", 1, Str), Z("code", 1, Enum)>>]
RpcError_Merge ==
    [merge |-> {"message", "code"},
     swap  |-> Each({"message", "code"})]

EchoRequest_Impl ==
    [impl  |-> <<I("message", Str), I("auth_token", Str)>>,
     copy  |-> Each({"message", "auth_token"}), clear |-> Each({"message", "auth_token"})]
EchoRequest_Wire ==
    [parse |-> <<P("message", 10, Str), P("auth_token", 18, Str)>>,
     write |-> <<W(1, "message", Str), W(2, "auth_token", Str)>>,
     size  |-> <<Z("message", 1, Str), Z("auth_token", 1, Str)>>]
EchoRequest_Merge ==
    [merge |-> {"message", "auth_token"},
     swap  |-> Each({"message", "auth_token"})]

EchoResponse_Impl ==
    [impl  |-> <<I("message", Str)>>,
     copy  |-> Each({"message"}), clear |-> Each({"message"})]
EchoResponse_Wire ==
    [parse |-> <<P("message", 10, Str)>>,
     write |-> <<W(1, "message", Str)>>,
     size  |-> <<Z("message", 1, Str)>>]
EchoResponse_Merge ==
    [merge |-> {"message"},
     swap  |-> Each({"message"})]

SubmitTaskRequest_Impl ==
    [impl  |-> <<I("cron_expr", Str), I("params", Str), I("handler", Str), I("auth_token", Str)>>,
     copy  |-> Each({"cron_expr", "params", "handler", "auth_token"}),
     clear |-> Each({"cron_expr", "params", "handler", "auth_token"})]
SubmitTaskRequest_Wire ==
    [parse |-> <<P("cron_expr", 10, Str), P("params", 18, Str), P("handler", 26, Str),
               P("auth_token", 34, Str)>>,
     write |-> <<W(1, "cron_expr", Str), W(2, "params", Str), W(3, "handler", Str), W(4, "auth_token", Str)>>,
     size  |-> <<Z("cron_expr", 1, Str), Z("params", 1, Str), Z("handler", 1, Str), Z("auth_token", 1, Str)>>]
SubmitTaskRequest_Merge ==
    [merge |-> {"cron_expr", "params", "handler", "auth_token"},
     swap  |-> Each({"cron_expr", "params", "handler", "auth_token"})]

SubmitTaskResponse_Impl ==
    [impl  |-> <<I("task_id", Str), I("error", Str), I("success", Bool)>>,
     copy  |-> Each({"task_id", "error", "success"}), clear |-> Each({"task_id", "error", "success"})]
SubmitTaskResponse_Wire ==
    [parse |-> <<P("task_id", 10, Str), P("success", 16, Bool), P("error", 26, Str)>>,
     write |-> <<W(1, "task_id", Str), W(2, "success", Bool), W(3, "error", Str)>>,
     size  |-> <<Z("task_id", 1, Str), Z("error", 1, Str), Z("success", 1, Bool)>>]
SubmitTaskResponse_Merge ==
    [merge |-> {"task_id", "error", "success"},
     swap  |-> Each({"task_id", "error", "success"})]

ExecuteTaskRequest_Impl ==
    [impl  |-> <<I("task_id", Str), I("params", Str), I("handler", Str), I("auth_token", Str),
               I("execution_id", Str), I("deadline_unix_ms", UInt64)>>,
     copy  |-> Each({"task_id", "params", "handler", "auth_token", "execution_id", "deadline_unix_ms"}),
     clear |-> Each({"task_id", "params", "handler", "auth_token", "execution_id", "deadline_unix_ms"})]
ExecuteTaskRequest_Wire ==
    [parse |-> <<P("task_id", 10, Str), P("params", 18, Str), P("handler", 26, Str), P("auth_token", 34, Str),
               P("execution_id", 42, Str), P("deadline_unix_ms", 48, UInt64)>>,
     write |-> <<W(1, "task_id", Str), W(2, "params", Str), W(3, "handler", Str), W(4, "auth_token", Str),
               W(5, "execution_id", Str), W(6, "deadline_unix_ms", UInt64)>>,
     size  |-> <<Z("task_id", 1, Str), Z("params", 1, Str), Z("handler", 1, Str), Z("auth_token", 1, Str),
               Z("execution_id", 1, Str), Z("deadline_unix_ms", 1, UInt64)>>]
ExecuteTaskRequest_Merge ==
    [merge |-> {"task_id", "params", "handler", "auth_token", "execution_id", "deadline_unix_ms"},
     swap  |-> Each({"task_id", "params", "handler", "auth_token", "execution_id", "deadline_unix_ms"})]

ExecuteTaskResponse_Impl ==
    [impl  |-> <<I("result", Str), I("error", Str), I("success", Bool)>>,
     copy  |-> Each({"result", "error", "success"}), clear |-> Each({"result", "error", "success"})]
ExecuteTaskResponse_Wire ==
    [parse |-> <<P("success", 8, Bool), P("result", 18, Str), P("error", 26, Str)>>,
     write |-> <<W(1, "success", Bool), W(2, "result", Str), W(3, "error", Str)>>,
     size  |-> <<Z("result", 1, Str), Z("error", 1, Str), Z("success", 1, Bool)>>]
ExecuteTaskResponse_Merge ==
    [merge |-> {"result", "error", "success"},
     swap  |-> Each({"result", "error", "success"})]

CancelTaskRequest_Impl ==
    [impl  |-> <<I("task_id", Str), I("auth_token", Str)>>,
     copy  |-> Each({"task_id", "auth_token"}), clear |-> Each({"task_id", "auth_token"})]
CancelTaskRequest_Wire ==
    [parse |-> <<P("task_id", 10, Str), P("auth_token", 18, Str)>>,
     write |-> <<W(1, "task_id", Str), W(2, "auth_token", Str)>>,
     size  |-> <<Z("task_id", 1, Str), Z("auth_token", 1, Str)>>]
CancelTaskRequest_Merge ==
    [merge |-> {"task_id", "auth_token"},
     swap  |-> Each({"task_id", "auth_token"})]

CancelTaskResponse_Impl ==
    [impl  |-> <<I("error", Str), I("success", Bool)>>,
     copy  |-> Each({"error", "success"}), clear |-> Each({"error", "success"})]
CancelTaskResponse_Wire ==
    [parse |-> <<P("success", 8, Bool), P("error", 18, Str)>>,
     write |-> <<W(1, "success", Bool), W(2, "error", Str)>>,
     size  |-> <<Z("error", 1, Str), Z("success", 1, Bool)>>]
CancelTaskResponse_Merge ==
    [merge |-> {"error", "success"},
     swap  |-> Each({"error", "success"})]

TaskInfo_Impl ==
    [impl  |-> <<I("id", Str), I("cron_expr", Str), I("params", Str), I("handler", Str), I("next_run_at", Str),
               I("last_run_at", Str), I("current_execution_id", Str), I("running_node", Str),
               I("started_at", Str), I("status", Int32), I("retry_count", Int32), I("max_retries", Int32)>>,
     copy  |-> Span({"id", "cron_expr", "params", "handler", "next_run_at", "last_run_at", "current_execution_id", "running_node", "started_at"}, "status", "max_retries"),
     clear |-> Span({"id", "cron_expr", "params", "handler", "next_run_at", "last_run_at", "current_execution_id", "running_node", "started_at"}, "status", "max_retries")]
TaskInfo_Wire ==
    [parse |-> <<P("id", 10, Str), P("cron_expr", 18, Str), P("params", 26, Str), P("handler", 34, Str),
               P("status", 40, Int32), P("next_run_at", 50, Str), P("last_run_at", 58, Str),
               P("retry_count", 64, Int32), P("max_retries", 72, Int32), P("current_execution_id", 82, Str),
               P("running_node", 90, Str), P("started_at", 98, Str)>>,
     write |-> <<W(1, "id", Str), W(2, "cron_expr", Str), W(3, "params", Str), W(4, "handler", Str),
               W(5, "status", Int32), W(6, "next_run_at", Str), W(7, "last_run_at", Str),
               W(8, "retry_count", Int32), W(9, "max_retries", Int32), W(10, "current_execution_id", Str),
               W(11, "running_node", Str), W(12, "started_at", Str)>>,
     size  |-> <<Z("id", 1, Str), Z("cron_expr", 1, Str), Z("params", 1, Str), Z("handler", 1, Str),
               Z("next_run_at", 1, Str), Z("last_run_at", 1, Str), Z("current_execution_id", 1, Str),
               Z("running_node", 1, Str), Z("started_at", 1, Str), Z("status", 1, Int32),
               Z("retry_count", 1, Int32), Z("max_retries", 1, Int32)>>]
TaskInfo_Merge ==
    [merge |-> {"id", "cron_expr", "params", "handler", "next_run_at", "last_run_at", "current_execution_id",
              "running_node", "started_at", "status", "retry_count", "max_retries"},
     swap  |-> Span({"id", "cron_expr", "params", "handler", "next_run_at", "last_run_at", "current_execution_id", "running_node", "started_at"}, "status", "max_retries")]

ListTasksRequest_Impl ==
    [impl  |-> <<I("auth_token", Str), I("keyword", Str), I("limit", Int32), I("offset", Int32),
               I("status_filter", Int32), I("enabled_only", Bool), I("has_status_filter", Bool)>>,
     copy  |-> Span({"auth_token", "keyword"}, "limit", "has_status_filter"),
     clear |-> Span({"auth_token", "keyword"}, "limit", "has_status_filter")]
ListTasksRequest_Wire ==
    [parse |-> <<P("auth_token", 10, Str), P("limit", 16, Int32), P("enabled_only", 24, Bool),
               P("offset", 32, Int32), P("status_filter", 40, Int32), P("keyword", 50, Str),
               P("has_status_filter", 56, Bool)>>,
     write |-> <<W(1, "auth_token", Str), W(2, "limit", Int32), W(3, "enabled_only", Bool),
               W(4, "offset", Int32), W(5, "status_filter", Int32), W(6, "keyword", Str),
               W(7, "has_status_filter", Bool)>>,
     size  |-> <<Z("auth_token", 1, Str), Z("keyword", 1, Str), Z("limit", 1, Int32), Z("offset", 1, Int32),
               Z("status_filter", 1, Int32), Z("enabled_only", 1, Bool), Z("has_status_filter", 1, Bool)>>]
ListTasksRequest_Merge ==
    [merge |-> {"auth_token", "keyword", "limit", "offset", "status_filter", "enabled_only",
              "has_status_filter"},
     swap  |-> Span({"auth_token", "keyword"}, "limit", "has_status_filter")]

ListTasksResponse_Impl ==
    [impl  |-> <<I("tasks", Rep("TaskInfo")), I("error", Str), I("success", Bool), I("total", Int32),
               I("offset", Int32), I("limit", Int32)>>,
     copy  |-> Span({"tasks", "error"}, "success", "limit"), clear |-> Span({"tasks", "error"}, "success", "limit")]
ListTasksResponse_Wire ==
    [parse |-> <<P("success", 8, Bool), P("error", 18, Str), P("tasks", 26, Rep("TaskInfo")),
               P("total", 32, Int32), P("offset", 40, Int32), P("limit", 48, Int32)>>,
     write |-> <<W(1, "success", Bool), W(2, "error", Str), W(3, "tasks", Rep("TaskInfo")),
               W(4, "total", Int32), W(5, "offset", Int32), W(6, "limit", Int32)>>,
     size  |-> <<Z("tasks", 1, Rep("TaskInfo")), Z("error", 1, Str), Z("success", 1, Bool),
               Z("total", 1, Int32), Z("offset", 1, Int32), Z("limit", 1, Int32)>>]
ListTasksResponse_Merge ==
    [merge |-> {"tasks", "error", "success", "total", "offset", "limit"},
     swap  |-> Span({"tasks", "error"}, "success", "limit")]

TaskHistoryInfo_Impl ==
    [impl  |-> <<I("execution_id", Str), I("task_id", Str), I("exec_node", Str), I("result", Str),
               I("error", Str), I("start_time", Str), I("end_time", Str), I("success", Bool)>>,
     copy  |-> Each({"execution_id", "task_id", "exec_node", "result", "error", "start_time", "end_time", "success"}),
     clear |-> Each({"execution_id", "task_id", "exec_node", "result", "error", "start_time", "end_time", "success"})]
TaskHistoryInfo_Wire ==
    [parse |-> <<P("execution_id", 10, Str), P("task_id", 18, Str), P("exec_node", 26, Str),
               P("success", 32, Bool), P("result", 42, Str), P("error", 50, Str), P("start_time", 58, Str),
               P("end_time", 66, Str)>>,
     write |-> <<W(1, "execution_id", Str), W(2, "task_id", Str), W(3, "exec_node", Str), W(4, "success", Bool),
               W(5, "result", Str), W(6, "error", Str), W(7, "start_time", Str), W(8, "end_time", Str)>>,
     size  |-> <<Z("execution_id", 1, Str), Z("task_id", 1, Str), Z("exec_node", 1, Str), Z("result", 1, Str),
               Z("error", 1, Str), Z("start_time", 1, Str), Z("end_time", 1, Str), Z("success", 1, Bool)>>]
TaskHistoryInfo_Merge ==
    [merge |-> {"execution_id", "task_id", "exec_node", "result", "error", "start_time", "end_time", "success"},
     swap  |-> Each({"execution_id", "task_id", "exec_node", "result", "error", "start_time", "end_time", "success"})]

ListHistoryRequest_Impl ==
    [impl  |-> <<I("auth_token", Str), I("task_id", Str), I("keyword", Str), I("limit", Int32),
               I("offset", Int32), I("success_filter", Int32), I("has_success_filter", Bool)>>,
     copy  |-> Span({"auth_token", "task_id", "keyword"}, "limit", "has_success_filter"),
     clear |-> Span({"auth_token", "task_id", "keyword"}, "limit", "has_success_filter")]
ListHistoryRequest_Wire ==
    [parse |-> <<P("auth_token", 10, Str), P("task_id", 18, Str), P("limit", 24, Int32), P("offset", 32, Int32),
               P("success_filter", 40, Int32), P("keyword", 50, Str), P("has_success_filter", 56, Bool)>>,
     write |-> <<W(1, "auth_token", Str), W(2, "task_id", Str), W(3, "limit", Int32), W(4, "offset", Int32),
               W(5, "success_filter", Int32), W(6, "keyword", Str), W(7, "has_success_filter", Bool)>>,
     size  |-> <<Z("auth_token", 1, Str), Z("task_id", 1, Str), Z("keyword", 1, Str), Z("limit", 1, Int32),
               Z("offset", 1, Int32), Z("success_filter", 1, Int32), Z("has_success_filter", 1, Bool)>>]
ListHistoryRequest_Merge ==
    [merge |-> {"auth_token", "task_id", "keyword", "limit", "offset", "success_filter", "has_success_filter"},
     swap  |-> Span({"auth_token", "task_id", "keyword"}, "limit", "has_success_filter")]

ListHistoryResponse_Impl ==
    [impl  |-> <<I("history", Rep("TaskHistoryInfo")), I("error", Str), I("success", Bool), I("total", Int32),
               I("offset", Int32), I("limit", Int32)>>,
     copy  |-> Span({"history", "error"}, "success", "limit"),
     clear |-> Span({"history", "error"}, "success", "limit")]
ListHistoryResponse_Wire ==
    [parse |-> <<P("success", 8, Bool), P("error", 18, Str), P("history", 26, Rep("TaskHistoryInfo")),
               P("total", 32, Int32), P("offset", 40, Int32), P("limit", 48, Int32)>>,
     write |-> <<W(1, "success", Bool), W(2, "error", Str), W(3, "history", Rep("TaskHistoryInfo")),
               W(4, "total", Int32), W(5, "offset", Int32), W(6, "limit", Int32)>>,
     size  |-> <<Z("history", 1, Rep("TaskHistoryInfo")), Z("error", 1, Str), Z("success", 1, Bool),
               Z("total", 1, Int32), Z("offset", 1, Int32), Z("limit", 1, Int32)>>]
ListHistoryResponse_Merge ==
    [merge |-> {"history", "error", "success", "total", "offset", "limit"},
     swap  |-> Span({"history", "error"}, "success", "limit")]

ListServicesRequest_Impl ==
    [impl  |-> <<I("auth_token", Str), I("service_name", Str)>>,
     copy  |-> Each({"auth_token", "service_name"}), clear |-> Each({"auth_token", "service_name"})]
ListServicesRequest_Wire ==
    [parse |-> <<P("auth_token", 10, Str), P("service_name", 18, Str)>>,
     write |-> <<W(1, "auth_token", Str), W(2, "service_name", Str)>>,
     size  |-> <<Z("auth_token", 1, Str), Z("service_name", 1, Str)>>]
ListServicesRequest_Merge ==
    [merge |-> {"auth_token", "service_name"},
     swap  |-> Each({"auth_token", "service_name"})]

ListServicesResponse_Impl ==
    [impl  |-> <<I("endpoints", Rep("str")), I("error", Str), I("success", Bool)>>,
     copy  |-> Each({"endpoints", "error", "success"}), clear |-> Each({"endpoints", "error", "success"})]
ListServicesResponse_Wire ==
    [parse |-> <<P("success", 8, Bool), P("error", 18, Str), P("endpoints", 26, Rep("str"))>>,
     write |-> <<W(1, "success", Bool), W(2, "error", Str), W(3, "endpoints", Rep("str"))>>,
     size  |-> <<Z("endpoints", 1, Rep("str")), Z("error", 1, Str), Z("success", 1, Bool)>>]
ListServicesResponse_Merge ==
    [merge |-> {"endpoints", "error", "success"},
     swap  |-> Each({"endpoints", "error", "success"})]

UpdateTaskRequest_Impl ==
    [impl  |-> <<I("auth_token", Str), I("task", One("TaskInfo"))>>,
     copy  |-> Each({"auth_token", "task"}), clear |-> Each({"auth_token", "task"})]
UpdateTaskRequest_Wire ==
    [parse |-> <<P("auth_token", 10, Str), P("task", 18, One("TaskInfo"))>>,
     write |-> <<W(1, "auth_token", Str), W(2, "task", One("TaskInfo"))>>,
     size  |-> <<Z("auth_token", 1, Str), Z("task", 1, One("TaskInfo"))>>]
UpdateTaskRequest_Merge ==
    [merge |-> {"auth_token", "task"},
     swap  |-> Each({"auth_token", "task"})]

UpdateTaskResponse_Impl ==
    [impl  |-> <<I("error", Str), I("success", Bool)>>,
     copy  |-> Each({"error", "success"}), clear |-> Each({"error", "success"})]
UpdateTaskResponse_Wire ==
    [parse |-> <<P("success", 8, Bool), P("error", 18, Str)>>,
     write |-> <<W(1, "success", Bool), W(2, "error", Str)>>,
     size  |-> <<Z("error", 1, Str), Z("success", 1, Bool)>>]
UpdateTaskResponse_Merge ==
    [merge |-> {"error", "success"},
     swap  |-> Each({"error", "success"})]

EnableTaskRequest_Impl ==
    [impl  |-> <<I("auth_token", Str), I("task_id", Str), I("enabled", Bool)>>,
     copy  |-> Each({"auth_token", "task_id", "enabled"}), clear |-> Each({"auth_token", "task_id", "enabled"})]
EnableTaskRequest_Wire ==
    [parse |-> <<P("auth_token", 10, Str), P("task_id", 18, Str), P("enabled", 24, Bool)>>,
     write |-> <<W(1, "auth_token", Str), W(2, "task_id", Str), W(3, "enabled", Bool)>>,
     size  |-> <<Z("auth_token", 1, Str), Z("task_id", 1, Str), Z("enabled", 1, Bool)>>]
EnableTaskRequest_Merge ==
    [merge |-> {"auth_token", "task_id", "enabled"},
     swap  |-> Each({"auth_token", "task_id", "enabled"})]

EnableTaskResponse_Impl ==
    [impl  |-> <<I("error", Str), I("success", Bool)>>,
     copy  |-> Each({"error", "success"}), clear |-> Each({"error", "success"})]
EnableTaskResponse_Wire ==
    [parse |-> <<P("success", 8, Bool), P("error", 18, Str)>>,
     write |-> <<W(1, "success", Bool), W(2, "error", Str)>>,
     size  |-> <<Z("error", 1, Str), Z("success", 1, Bool)>>]
EnableTaskResponse_Merge ==
    [merge |-> {"error", "success"},
     swap  |-> Each({"error", "success"})]

DeleteTaskRequest_Impl ==
    [impl  |-> <<I("auth_token", Str), I("task_id", Str)>>,
     copy  |-> Each({"auth_token", "task_id"}), clear |-> Each({"auth_token", "task_id"})]
DeleteTaskRequest_Wire ==
    [parse |-> <<P("auth_token", 10, Str), P("task_id", 18, Str)>>,
     write |-> <<W(1, "auth_token", Str), W(2, "task_id", Str)>>,
     size  |-> <<Z("auth_token", 1, Str), Z("task_id", 1, Str)>>]
DeleteTaskRequest_Merge ==
    [merge |-> {"auth_token", "task_id"},
     swap  |-> Each({"auth_token", "task_id"})]

DeleteTaskResponse_Impl ==
    [impl  |-> <<I("error", Str), I("success", Bool)>>,
     copy  |-> Each({"error", "success"}), clear |-> Each({"error", "success"})]
DeleteTaskResponse_Wire ==
    [parse |-> <<P("success", 8, Bool), P("error", 18, Str)>>,
     write |-> <<W(1, "success", Bool), W(2, "error", Str)>>,
     size  |-> <<Z("error", 1, Str), Z("success", 1, Bool)>>]
DeleteTaskResponse_Merge ==
    [merge |-> {"error", "success"},
     swap  |-> Each({"error", "success"})]

RunTaskNowRequest_Impl ==
    [impl  |-> <<I("auth_token", Str), I("task_id", Str)>>,
     copy  |-> Each({"auth_token", "task_id"}), clear |-> Each({"auth_token", "task_id"})]
RunTaskNowRequest_Wire ==
    [parse |-> <<P("auth_token", 10, Str), P("task_id", 18, Str)>>,
     write |-> <<W(1, "auth_token", Str), W(2, "task_id", Str)>>,
     size  |-> <<Z("auth_token", 1, Str), Z("task_id", 1, Str)>>]
RunTaskNowRequest_Merge ==
    [merge |-> {"auth_token", "task_id"},
     swap  |-> Each({"auth_token", "task_id"})]

RunTaskNowResponse_Impl ==
    [impl  |-> <<I("result", Str), I("error", Str), I("success", Bool)>>,
     copy  |-> Each({"result", "error", "success"}), clear |-> Each({"result", "error", "success"})]
RunTaskNowResponse_Wire ==
    [parse |-> <<P("success", 8, Bool), P("result", 18, Str), P("error", 26, Str)>>,
     write |-> <<W(1, "success", Bool), W(2, "result", Str), W(3, "error", Str)>>,
     size  |-> <<Z("result", 1, Str), Z("error", 1, Str), Z("success", 1, Bool)>>]
RunTaskNowResponse_Merge ==
    [merge |-> {"result", "error", "success"},
     swap  |-> Each({"result", "error", "success"})]

GetMetricsRequest_Impl ==
    [impl  |-> <<I("auth_token", Str)>>,
     copy  |-> Each({"auth_token"}), clear |-> Each({"auth_token"})]
GetMetricsRequest_Wire ==
    [parse |-> <<P("auth_token", 10, Str)>>,
     write |-> <<W(1, "auth_token", Str)>>,
     size  |-> <<Z("auth_token", 1, Str)>>]
GetMetricsRequest_Merge ==
    [merge |-> {"auth_token"},
     swap  |-> Each({"auth_token"})]

GetMetricsResponse_Impl ==
    [impl  |-> <<I("error", Str), I("rpc_requests_total", UInt64), I("rpc_success_total", UInt64),
               I("rpc_error_total", UInt64), I("active_connections", UInt64), I("rejected_connections", UInt64),
               I("malformed_frames", UInt64), I("bytes_in_total", UInt64), I("bytes_out_total", UInt64),
               I("task_success_total", UInt64), I("task_failure_total", UInt64),
               I("lock_acquire_success_total", UInt64), I("lock_acquire_failure_total", UInt64),
               I("max_task_duration_ms", UInt64), I("task_duration_p95_ms", UInt64),
               I("task_duration_p99_ms", UInt64), I("task_duration_samples_total", UInt64),
               I("schedule_delay_max_ms", UInt64), I("schedule_delay_p95_ms", UInt64),
               I("schedule_delay_p99_ms", UInt64), I("schedule_delay_samples_total", UInt64),
               I("success", Bool)>>,
     copy  |-> Span({"error"}, "rpc_requests_total", "success"),
     clear |-> Span({"error"}, "rpc_requests_total", "success")]
GetMetricsResponse_Wire ==
    [parse |-> <<P("success", 8, Bool), P("error", 18, Str), P("rpc_requests_total", 24, UInt64),
               P("rpc_success_total", 32, UInt64), P("rpc_error_total", 40, UInt64),
               P("active_connections", 48, UInt64), P("rejected_connections", 56, UInt64),
               P("malformed_frames", 64, UInt64), P("bytes_in_total", 72, UInt64),
               P("bytes_out_total", 80, UInt64), P("task_success_total", 88, UInt64),
               P("task_failure_total", 96, UInt64), P("lock_acquire_success_total", 104, UInt64),
               P("lock_acquire_failure_total", 112, UInt64), P("max_task_duration_ms", 120, UInt64),
               P("task_duration_p95_ms", 128, UInt64), P("task_duration_p99_ms", 136, UInt64),
               P("task_duration_samples_total", 144, UInt64), P("schedule_delay_max_ms", 152, UInt64),
               P("schedule_delay_p95_ms", 160, UInt64), P("schedule_delay_p99_ms", 168, UInt64),
               P("schedule_delay_samples_total", 176, UInt64)>>,
     write |-> <<W(1, "success", Bool), W(2, "error", Str), W(3, "rpc_requests_total", UInt64),
               W(4, "rpc_success_total", UInt64), W(5, "rpc_error_total", UInt64),
               W(6, "active_connections", UInt64), W(7, "rejected_connections", UInt64),
               W(8, "malformed_frames", UInt64), W(9, "bytes_in_total", UInt64),
               W(10, "bytes_out_total", UInt64), W(11, "task_success_total", UInt64),
               W(12, "task_failure_total", UInt64), W(13, "lock_acquire_success_total", UInt64),
               W(14, "lock_acquire_failure_total", UInt64), W(15, "max_task_duration_ms", UInt64),
               W(16, "task_duration_p95_ms", UInt64), W(17, "task_duration_p99_ms", UInt64),
               W(18, "task_duration_samples_total", UInt64), W(19, "schedule_delay_max_ms", UInt64),
               W(20, "schedule_delay_p95_ms", UInt64), W(21, "schedule_delay_p99_ms", UInt64),
               W(22, "schedule_delay_samples_total", UInt64)>>,
     size  |-> <<Z("error", 1, Str), Z("rpc_requests_total", 1, UInt64), Z("rpc_success_total", 1, UInt64),
               Z("rpc_error_total", 1, UInt64), Z("active_connections", 1, UInt64),
               Z("rejected_connections", 1, UInt64), Z("malformed_frames", 1, UInt64),
               Z("bytes_in_total", 1, UInt64), Z("bytes_out_total", 1, UInt64),
               Z("task_success_total", 1, UInt64), Z("task_failure_total", 1, UInt64),
               Z("lock_acquire_success_total", 1, UInt64), Z("lock_acquire_failure_total", 1, UInt64),
               Z("max_task_duration_ms", 1, UInt64), Z("task_duration_p95_ms", 2, UInt64),
               Z("task_duration_p99_ms", 2, UInt64), Z("task_duration_samples_total", 2, UInt64),
               Z("schedule_delay_max_ms", 2, UInt64), Z("schedule_delay_p95_ms", 2, UInt64),
               Z("schedule_delay_p99_ms", 2, UInt64), Z("schedule_delay_samples_total", 2, UInt64),
               Z("success", 1, Bool)>>]
GetMetricsResponse_Merge ==
    [merge |-> {"error", "rpc_requests_total", "rpc_success_total", "rpc_error_total", "active_connections",
              "rejected_connections", "malformed_frames", "bytes_in_total", "bytes_out_total",
              "task_success_total", "task_failure_total", "lock_acquire_success_total",
              "lock_acquire_failure_total", "max_task_duration_ms", "task_duration_p95_ms",
              "task_duration_p99_ms", "task_duration_samples_total", "schedule_delay_max_ms",
              "schedule_delay_p95_ms", "schedule_delay_p99_ms", "schedule_delay_samples_total", "success"},
     swap  |-> Span({"error"}, "rpc_requests_total", "success")]

HealthCheckRequest_Impl ==
    [impl  |-> <<I("service_name", Str), I("auth_token", Str)>>,
     copy  |-> Each({"service_name", "auth_token"}), clear |-> Each({"service_name", "auth_token"})]
HealthCheckRequest_Wire ==
    [parse |-> <<P("service_name", 10, Str), P("auth_token", 18, Str)>>,
     write |-> <<W(1, "service_name", Str), W(2, "auth_token", Str)>>,
     size  |-> <<Z("service_name", 1, Str), Z("auth_token", 1, Str)>>]
HealthCheckRequest_Merge ==
    [merge |-> {"service_name", "auth_token"},
     swap  |-> Each({"service_name", "auth_token"})]

HealthCheckResponse_Impl ==
    [impl  |-> <<I("status", Str), I("node_id", Str), I("unix_time_ms", UInt64), I("serving", Bool)>>,
     copy  |-> Span({"status", "node_id"}, "unix_time_ms", "serving"),
     clear |-> Span({"status", "node_id"}, "unix_time_ms", "serving")]
HealthCheckResponse_Wire ==
    [parse |-> <<P("serving", 8, Bool), P("status", 18, Str), P("node_id", 26, Str),
               P("unix_time_ms", 32, UInt64)>>,
     write |-> <<W(1, "serving", Bool), W(2, "status", Str), W(3, "node_id", Str),
               W(4, "unix_time_ms", UInt64)>>,
     size  |-> <<Z("status", 1, Str), Z("node_id", 1, Str), Z("unix_time_ms", 1, UInt64),
               Z("serving", 1, Bool)>>]
HealthCheckResponse_Merge ==
    [merge |-> {"status", "node_id", "unix_time_ms", "serving"},
     swap  |-> Span({"status", "node_id"}, "unix_time_ms", "serving")]

StreamMetricsRequest_Impl ==
    [impl  |-> <<I("auth_token", Str), I("samples", Int32)>>,
     copy  |-> Each({"auth_token", "samples"}), clear |-> Each({"auth_token", "samples"})]
StreamMetricsRequest_Wire ==
    [parse |-> <<P("auth_token", 10, Str), P("samples", 16, Int32)>>,
     write |-> <<W(1, "auth_token", Str), W(2, "samples", Int32)>>,
     size  |-> <<Z("auth_token", 1, Str), Z("samples", 1, Int32)>>]
StreamMetricsRequest_Merge ==
    [merge |-> {"auth_token", "samples"},
     swap  |-> Each({"auth_token", "samples"})]

\* Mutant: Clear stops one member early.
StreamMetricsResponse_Impl_ClearsLess ==
    [impl  |-> <<I("error", Str), I("metrics", One("GetMetricsResponse")), I("success", Bool),
               I("end_of_stream", Bool), I("sequence", UInt32)>>,
     copy  |-> Span({"error", "metrics"}, "success", "sequence"),
     clear |-> Span({"error", "metrics"}, "success", "end_of_stream")]
\* Mutant: ByteSizeLong forgets a field.
StreamMetricsResponse_Wire_SizesLess ==
    [parse |-> <<P("success", 8, Bool), P("error", 18, Str), P("sequence", 24, UInt32),
               P("end_of_stream", 32, Bool), P("metrics", 42, One("GetMetricsResponse"))>>,
     write |-> <<W(1, "success", Bool), W(2, "error", Str), W(3, "sequence", UInt32),
               W(4, "end_of_stream", Bool), W(5, "metrics", One("GetMetricsResponse"))>>,
     size  |-> <<Z("error", 1, Str), Z("metrics", 1, One("GetMetricsResponse")), Z("success", 1, Bool),
               Z("sequence", 1, UInt32)>>]
\* Mutant: MergeImpl forgets a field.
StreamMetricsResponse_Merge_MovesLess ==
    [merge |-> {"error", "metrics", "success", "end_of_stream"},
     swap  |-> Span({"error"}, "metrics", "sequence")]

StreamMetricsResponse_Impl ==
    [impl  |-> <<I("error", Str), I("metrics", One("GetMetricsResponse")), I("success", Bool),
               I("end_of_stream", Bool), I("sequence", UInt32)>>,
     copy  |-> Span({"error", "metrics"}, "success", "sequence"),
     clear |-> Span({"error", "metrics"}, "success", "sequence")]
StreamMetricsResponse_Wire ==
    [parse |-> <<P("success", 8, Bool), P("error", 18, Str), P("sequence", 24, UInt32),
               P("end_of_stream", 32, Bool), P("metrics", 42, One("GetMetricsResponse"))>>,
     write |-> <<W(1, "success", Bool), W(2, "error", Str), W(3, "sequence", UInt32),
               W(4, "end_of_stream", Bool), W(5, "metrics", One("GetMetricsResponse"))>>,
     size  |-> <<Z("error", 1, Str), Z("metrics", 1, One("GetMetricsResponse")), Z("success", 1, Bool),
               Z("end_of_stream", 1, Bool), Z("sequence", 1, UInt32)>>]
StreamMetricsResponse_Merge ==
    [merge |-> {"error", "metrics", "success", "end_of_stream", "sequence"},
     swap  |-> Span({"error"}, "metrics", "sequence")]

-----------------------------------------------------------------------------

\* The message types of the protocol.
Protocol ==
    [RpcError |-> [impl |-> RpcError_Impl, wire |-> RpcError_Wire, move |-> RpcError_Merge],
     EchoRequest |-> [impl |-> EchoRequest_Impl, wire |-> EchoRequest_Wire, move |-> EchoRequest_Merge],
     EchoResponse |-> [impl |-> EchoResponse_Impl, wire |-> EchoResponse_Wire, move |-> EchoResponse_Merge],
     SubmitTaskRequest |-> [impl |-> SubmitTaskRequest_Impl, wire |-> SubmitTaskRequest_Wire, move |-> SubmitTaskRequest_Merge],
     SubmitTaskResponse |-> [impl |-> SubmitTaskResponse_Impl, wire |-> SubmitTaskResponse_Wire, move |-> SubmitTaskResponse_Merge],
     ExecuteTaskRequest |-> [impl |-> ExecuteTaskRequest_Impl, wire |-> ExecuteTaskRequest_Wire, move |-> ExecuteTaskRequest_Merge],
     ExecuteTaskResponse |-> [impl |-> ExecuteTaskResponse_Impl, wire |-> ExecuteTaskResponse_Wire, move |-> ExecuteTaskResponse_Merge],
     CancelTaskRequest |-> [impl |-> CancelTaskRequest_Impl, wire |-> CancelTaskRequest_Wire, move |-> CancelTaskRequest_Merge],
     CancelTaskResponse |-> [impl |-> CancelTaskResponse_Impl, wire |-> CancelTaskResponse_Wire, move |-> CancelTaskResponse_Merge],
     TaskInfo |-> [impl |-> TaskInfo_Impl, wire |-> TaskInfo_Wire, move |-> TaskInfo_Merge],
     ListTasksRequest |-> [impl |-> ListTasksRequest_Impl, wire |-> ListTasksRequest_Wire, move |-> ListTasksRequest_Merge],
     ListTasksResponse |-> [impl |-> ListTasksResponse_Impl, wire |-> ListTasksResponse_Wire, move |-> ListTasksResponse_Merge],
     TaskHistoryInfo |-> [impl |-> TaskHistoryInfo_Impl, wire |-> TaskHistoryInfo_Wire, move |-> TaskHistoryInfo_Merge],
     ListHistoryRequest |-> [impl |-> ListHistoryRequest_Impl, wire |-> ListHistoryRequest_Wire, move |-> ListHistoryRequest_Merge],
     ListHistoryResponse |-> [impl |-> ListHistoryResponse_Impl, wire |-> ListHistoryResponse_Wire, move |-> ListHistoryResponse_Merge],
     ListServicesRequest |-> [impl |-> ListServicesRequest_Impl, wire |-> ListServicesRequest_Wire, move |-> ListServicesRequest_Merge],
     ListServicesResponse |-> [impl |-> ListServicesResponse_Impl, wire |-> ListServicesResponse_Wire, move |-> ListServicesResponse_Merge],
     UpdateTaskRequest |-> [impl |-> UpdateTaskRequest_Impl, wire |-> UpdateTaskRequest_Wire, move |-> UpdateTaskRequest_Merge],
     UpdateTaskResponse |-> [impl |-> UpdateTaskResponse_Impl, wire |-> UpdateTaskResponse_Wire, move |-> UpdateTaskResponse_Merge],
     EnableTaskRequest |-> [impl |-> EnableTaskRequest_Impl, wire |-> EnableTaskRequest_Wire, move |-> EnableTaskRequest_Merge],
     EnableTaskResponse |-> [impl |-> EnableTaskResponse_Impl, wire |-> EnableTaskResponse_Wire, move |-> EnableTaskResponse_Merge],
     DeleteTaskRequest |-> [impl |-> DeleteTaskRequest_Impl, wire |-> DeleteTaskRequest_Wire, move |-> DeleteTaskRequest_Merge],
     DeleteTaskResponse |-> [impl |-> DeleteTaskResponse_Impl, wire |-> DeleteTaskResponse_Wire, move |-> DeleteTaskResponse_Merge],
     RunTaskNowRequest |-> [impl |-> RunTaskNowRequest_Impl, wire |-> RunTaskNowRequest_Wire, move |-> RunTaskNowRequest_Merge],
     RunTaskNowResponse |-> [impl |-> RunTaskNowResponse_Impl, wire |-> RunTaskNowResponse_Wire, move |-> RunTaskNowResponse_Merge],
     GetMetricsRequest |-> [impl |-> GetMetricsRequest_Impl, wire |-> GetMetricsRequest_Wire, move |-> GetMetricsRequest_Merge],
     GetMetricsResponse |-> [impl |-> GetMetricsResponse_Impl, wire |-> GetMetricsResponse_Wire, move |-> GetMetricsResponse_Merge],
     HealthCheckRequest |-> [impl |-> HealthCheckRequest_Impl, wire |-> HealthCheckRequest_Wire, move |-> HealthCheckRequest_Merge],
     HealthCheckResponse |-> [impl |-> HealthCheckResponse_Impl, wire |-> HealthCheckResponse_Wire, move |-> HealthCheckResponse_Merge],
     StreamMetricsRequest |-> [impl |-> StreamMetricsRequest_Impl, wire |-> StreamMetricsRequest_Wire, move |-> StreamMetricsRequest_Merge],
     StreamMetricsResponse |-> [impl |-> StreamMetricsResponse_Impl, wire |-> StreamMetricsResponse_Wire, move |-> StreamMetricsResponse_Merge]]
=============================================================================
