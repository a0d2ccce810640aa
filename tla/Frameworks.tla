----------------------------- MODULE Frameworks ------------------------------
(* The instrumentations of agent frameworks, crawlers, memory layers and of   *)
(* MCP, in the terms of module Telemetry.                                     *)
EXTENDS Telemetry

-----------------------------------------------------------------------------
(* AG2 (instrumentation/ag2)                                                  *)

ag2_common_agent_logic ==
    <<common_span_attributes>>
    \o IfCapture(<<format_content, content_attributes>>)
    \o <<set_status_ok, record_completion_metrics>>

ag2_calculate_tokens_and_cost == Guarded(set_attributes)
ag2_process_agent_creation == ag2_common_agent_logic

ag2_process_agent_run ==
    <<ag2_calculate_tokens_and_cost>> \o ag2_common_agent_logic

ag2_process_agent_generate_reply ==
    <<set_attributes>> \o ag2_common_agent_logic

ag2_process_agent_receive ==
    <<set_attributes>>
    \o IfCapture(<<content_attributes>>)
    \o ag2_common_agent_logic

ag2_process_agent_send ==
    <<set_attributes>>
    \o IfCapture(<<content_attributes>>)
    \o ag2_common_agent_logic

ag2_process_groupchat_operation ==
    <<set_attributes>>
    \o IfCapture(<<content_attributes>>)
    \o ag2_common_agent_logic

ag2_process_speaker_selection == <<set_attributes>> \o ag2_common_agent_logic
ag2_conversable_agent == Wrapper(ag2_process_agent_creation)
ag2_agent_run == Wrapper(ag2_process_agent_run)
ag2_agent_generate_reply == Wrapper(ag2_process_agent_generate_reply)
ag2_agent_receive == Wrapper(ag2_process_agent_receive)
ag2_agent_send == Wrapper(ag2_process_agent_send)
ag2_groupchat_manager_run_chat == Wrapper(ag2_process_groupchat_operation)
ag2_groupchat_select_speaker == Wrapper(ag2_process_speaker_selection)

-----------------------------------------------------------------------------
(* Agno (instrumentation/agno); the wrapper marks the span OK after the       *)
(* response function.                                                         *)

agno_process_agent_request ==
    <<common_span_attributes>>
    \o IfCapture(<<content_attributes>>)
    \o <<set_attributes>>

agno_process_tool_request ==
    <<common_span_attributes, set_attributes>>
    \o IfCapture(<<content_attributes>>)

agno_process_memory_request ==
    <<common_span_attributes, set_attributes>>
    \o IfCapture(<<content_attributes>>)

agno_process_reasoning_request == <<common_span_attributes, set_attributes>>
\* The query of a search, under no setting.
agno_process_vectordb_request ==
    <<common_span_attributes, content_attributes, set_attributes>>

agno_process_knowledge_request ==
    <<common_span_attributes>>
    \o IfCapture(<<content_attributes>>)
    \o <<set_attributes>>

agno_process_workflow_request == <<common_span_attributes, set_attributes>>
agno_process_team_request == <<common_span_attributes, set_attributes>>

agno_agent_run_wrap ==
    Suppressible(Wrapper(agno_process_agent_request \o <<set_status_ok>>))

agno_agent_run_tool_wrap ==
    Suppressible(Wrapper(agno_process_tool_request \o <<set_status_ok>>))

agno_agent_continue_run_wrap ==
    Suppressible(Wrapper(agno_process_agent_request \o <<set_status_ok>>))

agno_agent_add_tool_wrap ==
    Suppressible(Wrapper(agno_process_tool_request \o <<set_status_ok>>))

agno_session_memory_wrap ==
    Suppressible(Wrapper(agno_process_memory_request \o <<set_status_ok>>))

agno_model_run_function_call_wrap ==
    Suppressible(Wrapper(agno_process_tool_request \o <<set_status_ok>>))

agno_function_entrypoint_wrap ==
    Suppressible(Wrapper(agno_process_tool_request \o <<set_status_ok>>))

agno_function_execute_wrap ==
    Attaching(Suppressible(Wrapper(agno_process_tool_request
                                   \o <<set_status_ok>>)))

agno_reasoning_tool_wrap ==
    Suppressible(Wrapper(agno_process_reasoning_request \o <<set_status_ok>>))

agno_reasoning_wrap ==
    Suppressible(Wrapper(agno_process_reasoning_request \o <<set_status_ok>>))

agno_memory_operation_wrap ==
    Suppressible(Wrapper(agno_process_memory_request \o <<set_status_ok>>))

agno_memory_add_wrap ==
    Suppressible(Wrapper(agno_process_memory_request \o <<set_status_ok>>))

agno_memory_search_wrap ==
    Suppressible(Wrapper(agno_process_memory_request \o <<set_status_ok>>))

agno_vectordb_search_wrap ==
    Suppressible(Wrapper(agno_process_vectordb_request \o <<set_status_ok>>))

agno_vectordb_upsert_wrap ==
    Suppressible(Wrapper(agno_process_vectordb_request \o <<set_status_ok>>))

agno_knowledge_search_wrap ==
    Suppressible(Wrapper(agno_process_knowledge_request \o <<set_status_ok>>))

agno_knowledge_add_wrap ==
    Suppressible(Wrapper(agno_process_knowledge_request \o <<set_status_ok>>))

agno_workflow_run_wrap ==
    Suppressible(Wrapper(agno_process_workflow_request \o <<set_status_ok>>))

agno_team_run_wrap ==
    Suppressible(Wrapper(agno_process_team_request \o <<set_status_ok>>))

agno_async_agent_continue_run_wrap ==
    Async(Wrapper(agno_process_agent_request \o <<set_status_ok>>))

agno_async_model_run_function_call_wrap ==
    Async(Wrapper(agno_process_tool_request \o <<set_status_ok>>))

agno_async_function_entrypoint_wrap ==
    Async(Wrapper(agno_process_tool_request \o <<set_status_ok>>))

agno_async_team_run_wrap ==
    Async(Wrapper(agno_process_team_request \o <<set_status_ok>>))

agno_async_function_execute_wrap ==
    Async(Wrapper(agno_process_tool_request \o <<set_status_ok>>))

agno_async_reasoning_wrap ==
    Async(Wrapper(agno_process_reasoning_request \o <<set_status_ok>>))

agno_arun_wrapper == Wrapper(agno_process_agent_request \o <<set_status_ok>>)

agno_arun_stream_wrapper ==
    Generator("finish", "finish",
              Guarded(response_as_dict({})),
              agno_process_agent_request \o <<set_status_ok>>)

agno_async_agent_run_wrap ==
    Async(Streamed(agno_arun_wrapper, agno_arun_stream_wrapper))

agno_async_agent_run_stream_wrap ==
    Async(OnlyStreams(Generator("finish", "finish",
                                Guarded(response_as_dict({})),
                                agno_process_agent_request
                                \o <<set_status_ok>>)))

agno_async_team_run_stream_wrap ==
    Async(OnlyStreams(Generator("finish", "finish",
                                Guarded(response_as_dict({})),
                                agno_process_team_request
                                \o <<set_status_ok>>)))

agno_async_workflow_run_wrap ==
    Async(OnlyStreams(Generator("close", "close",
                                Guarded(response_as_dict({})),
                                agno_process_workflow_request
                                \o <<set_status_ok>>)))

-----------------------------------------------------------------------------
(* CrewAI (instrumentation/crewai); the helpers mark the span with their own  *)
(* exceptions, and the logic goes on to OK.                                   *)

crewai_set_span_name == noting_helper
crewai_set_agent_business_intelligence == noting_helper
crewai_set_tool_business_intelligence == noting_helper

\* The description and the expected output of a task, under no setting.
crewai_set_task_business_intelligence ==
    <<Guarded(content_attributes), noting_helper>>

crewai_track_cost_and_tokens == Guarded(set_attributes)
crewai_capture_content == Guarded(content_attributes)
crewai_record_crewai_metrics == Guarded(record_framework_metrics)

crewai_process_crewai_response ==
    <<common_framework_span_attributes, crewai_set_span_name,
      crewai_set_agent_business_intelligence,
      crewai_set_tool_business_intelligence>>
    \o crewai_set_task_business_intelligence
    \o IfCapture(<<crewai_capture_content>>)
    \o <<crewai_track_cost_and_tokens, crewai_record_crewai_metrics,
         set_status_ok>>

crewai_general_wrap == Suppressible(Wrapper(crewai_process_crewai_response))

crewai_async_general_wrap ==
    Async(Suppressible(Wrapper(crewai_process_crewai_response)))

-----------------------------------------------------------------------------
(* Haystack (instrumentation/haystack); the strings a pipeline is given and   *)
(* returns go on the span whatever the capture setting.                       *)

haystack_extract_component_technical_details == set_attributes
haystack_extract_component_connections == set_attributes
haystack_extract_pipeline_metadata == content_attributes

haystack_process_haystack_response ==
    <<common_framework_span_attributes,
      haystack_extract_component_technical_details,
      haystack_extract_component_connections,
      haystack_extract_pipeline_metadata, content_attributes>>
    \o IfCapture(<<content_attributes>>)
    \o <<set_status_ok, record_framework_metrics>>

haystack_general_wrap ==
    Suppressible(Wrapper(haystack_process_haystack_response))

haystack_async_general_wrap ==
    Async(Suppressible(Wrapper(haystack_process_haystack_response)))

-----------------------------------------------------------------------------
(* LlamaIndex (instrumentation/llamaindex)                                    *)

llamaindex_process_index_operations == Guarded(set_attributes)
llamaindex_extract_performance_metrics == set_attributes
llamaindex_extract_business_intelligence == set_attributes

llamaindex_common_llamaindex_logic ==
    <<common_framework_span_attributes,
      llamaindex_extract_performance_metrics,
      llamaindex_extract_business_intelligence,
      llamaindex_process_index_operations>>
    \o IfCapture(<<content_attributes>>)
    \o <<set_status_ok, record_framework_metrics>>

llamaindex_process_llamaindex_response == llamaindex_common_llamaindex_logic

llamaindex_general_wrap ==
    Suppressible(Wrapper(llamaindex_process_llamaindex_response))

llamaindex_async_general_wrap ==
    Async(Suppressible(Wrapper(llamaindex_process_llamaindex_response)))

-----------------------------------------------------------------------------
(* ControlFlow, Dynamiq, Julep and MultiOn (instrumentation/controlflow,      *)
(* dynamiq, julep, multion)                                                   *)

controlflow_wrap_controlflow == Wrapper(<<set_attributes, set_status_ok>>)
dynamiq_dynamiq_wrap == Wrapper(<<set_attributes, set_status_ok>>)

julep_wrap_julep ==
    Wrapper(<<set_attributes>>
            \o IfCapture(<<content_attributes>>)
            \o <<set_status_ok>>)

julep_async_wrap_julep ==
    Async(Wrapper(<<set_attributes>>
                  \o IfCapture(<<content_attributes>>)
                  \o <<set_status_ok>>))

multion_multion_wrap ==
    Wrapper(<<set_attributes>>
            \o IfCapture(<<content_attributes>>)
            \o <<set_status_ok>>)

multion_async_multion_wrap ==
    Async(Wrapper(<<set_attributes>>
                  \o IfCapture(<<content_attributes>>)
                  \o <<set_status_ok>>))

-----------------------------------------------------------------------------
(* Browser Use (instrumentation/browser_use); no status is set on success.    *)

browser_use_set_enhanced_span_attributes == common_framework_span_attributes
browser_use_add_browser_use_attributes == Guarded(set_attributes)

browser_use_process_enhanced_response ==
    <<Guarded(set_attributes)>> \o IfCapture(<<Guarded(content_attributes)>>)

browser_use_capture_token_and_cost_metrics == Guarded(set_attributes)
browser_use_record_operation_metrics == Guarded(record_framework_metrics)

browser_use_general_wrap ==
    MeteredErrors(Suppressible(
                      Raising(<<browser_use_set_enhanced_span_attributes,
                                browser_use_add_browser_use_attributes>>,
                              browser_use_process_enhanced_response
                              \o <<browser_use_capture_token_and_cost_metrics,
                                   browser_use_record_operation_metrics>>)))

browser_use_async_set_enhanced_span_attributes ==
    common_framework_span_attributes

browser_use_async_add_browser_use_attributes == Guarded(set_attributes)
browser_use_add_agent_configuration_attributes == Guarded(set_attributes)

browser_use_async_process_enhanced_response ==
    <<Guarded(set_attributes)>> \o IfCapture(<<Guarded(content_attributes)>>)

browser_use_async_record_operation_metrics == Guarded(record_framework_metrics)

browser_use_async_general_wrap ==
    Async(
        MeteredErrors(
            Suppressible(
                Raising(<<browser_use_async_set_enhanced_span_attributes,
                          browser_use_async_add_browser_use_attributes,
                          browser_use_add_agent_configuration_attributes>>,
                        browser_use_async_process_enhanced_response
                        \o <<browser_use_capture_token_and_cost_metrics,
                             browser_use_async_record_operation_metrics>>))))

-----------------------------------------------------------------------------
(* Crawl4AI (instrumentation/crawl4ai); the span of a streamed crawl is ended *)
(* when the stream is handed over.                                            *)

crawl4ai_set_crawl_attributes == set_attributes
crawl4ai_process_crawl_response == <<noting_helper_ok>>
crawl4ai_process_llm_extraction_response == noting_helper
crawl4ai_capture_message_content_if_enabled == Guarded(content_attributes)
crawl4ai_capture_extraction_content == Guarded(content_attributes)
crawl4ai_record_metrics == Guarded(record_framework_metrics)

crawl4ai_general_wrap ==
    MeteredErrors(
        Suppressible(
            Raising(<<crawl4ai_set_crawl_attributes>>,
                    crawl4ai_process_crawl_response
                    \o IfCapture(
                           <<crawl4ai_capture_message_content_if_enabled>>)
                    \o <<crawl4ai_record_metrics>>)))

crawl4ai_handle_regular_response ==
    crawl4ai_process_crawl_response
    \o IfCapture(<<crawl4ai_capture_message_content_if_enabled>>)
    \o <<crawl4ai_record_metrics>>

\* The extraction operations of the same wrapper.
crawl4ai_extract_response ==
    <<crawl4ai_process_llm_extraction_response>>
    \o IfCapture(<<crawl4ai_capture_extraction_content>>)
    \o <<crawl4ai_record_metrics>>

crawl4ai_TrackedAsyncGenerator ==
    Stream("within", "ended", "mark", "leave", FALSE,
           response_as_dict({"text"}),
           crawl4ai_process_crawl_response
           \o IfCapture(<<crawl4ai_capture_message_content_if_enabled>>)
           \o <<crawl4ai_record_metrics>>)

crawl4ai_async_general_wrap ==
    Async(Streamed(MeteredErrors(Suppressible(
                                     Raising(
                                         <<crawl4ai_set_crawl_attributes>>,
                                         crawl4ai_handle_regular_response))),
                   crawl4ai_TrackedAsyncGenerator))

crawl4ai_extract ==
    MeteredErrors(Suppressible(Raising(<<crawl4ai_set_crawl_attributes>>,
                                       crawl4ai_extract_response)))

-----------------------------------------------------------------------------
(* LangGraph (instrumentation/langgraph); graph calls nested in a traced one  *)
(* are not traced.                                                            *)

langgraph_extract_llm_info_from_result == Guarded(content_attributes)
langgraph_extract_config_info == set_attributes
langgraph_set_graph_attributes == Guarded(set_attributes)

langgraph_process_invoke_response ==
    IfCapture(<<Guarded(content_attributes)>>)

langgraph_process_state_response == <<Guarded(set_attributes)>>
langgraph_process_compile_response == <<langgraph_set_graph_attributes>>
langgraph_record_langgraph_metrics == Guarded(record_framework_metrics)
langgraph_record_checkpoint_metrics == Guarded(record_framework_metrics)

langgraph_process_langgraph_response ==
    <<common_framework_span_attributes, langgraph_extract_config_info>>
    \o langgraph_process_invoke_response
    \o langgraph_process_state_response
    \o <<set_status_ok, langgraph_record_langgraph_metrics>>

langgraph_finalize_stream_span ==
    <<Guarded(set_attributes)>>
    \o IfCapture(<<Guarded(content_attributes)>>)
    \o <<set_status_ok>>

langgraph_general_wrap ==
    Attaching(Nested(Raising(<<set_attributes>>,
                             langgraph_process_langgraph_response)))

langgraph_handle_stream ==
    Nested(Before(<<set_attributes>> \o IfCapture(<<content_attributes>>),
                  OnlyStreams(Generator("close", "close",
                                        response_as_dict({"text"}),
                                        langgraph_finalize_stream_span))))

langgraph_process_stream_chunk == Guarded(response_as_dict({"text"}))

langgraph_finalize_async_stream_span ==
    <<Guarded(set_attributes)>>
    \o IfCapture(<<Guarded(content_attributes)>>)
    \o <<set_status_ok>>

langgraph_async_general_wrap ==
    Async(Attaching(Nested(Raising(<<set_attributes>>,
                                   langgraph_process_langgraph_response))))

langgraph_create_async_stream_wrapper ==
    Async(Nested(Before(
                     <<set_attributes>> \o IfCapture(<<content_attributes>>),
                     OnlyStreams(Generator(
                                     "close", "close",
                                     langgraph_process_stream_chunk,
                                     langgraph_finalize_async_stream_span)))))

langgraph_async_checkpoint_wrap ==
    Async(Suppressible(Raising(<<>>,
                               <<set_attributes, set_status_ok,
                                 langgraph_record_checkpoint_metrics>>)))

langgraph_wrap_compile ==
    UnlessCreating(Suppressible(Raising(<<>>,
                                        <<set_attributes>>
                                        \o langgraph_process_compile_response
                                        \o <<set_status_ok>>)))

langgraph_create_wrapped_node ==
    Suppressible(Raising(<<Guarded(set_attributes)>>,
                         <<langgraph_extract_llm_info_from_result,
                           set_status_ok>>))

-----------------------------------------------------------------------------
(* LangChain agents and embeddings (instrumentation/langchain); its models    *)
(* and chains are traced by a callback handler, which is not a wrapper.       *)

langchain_wrap_create_agent ==
    Attaching(Raising(<<set_attributes>>, <<set_status_ok>>))

langchain_wrap_embed ==
    MeteredErrors(Suppressible(Raising(<<set_attributes>>,
                                       <<set_attributes, set_status_ok,
                                         record_embedding_metrics>>)))

langchain_wrap_embed_async ==
    Async(MeteredErrors(Suppressible(Raising(<<set_attributes>>,
                                             <<set_attributes, set_status_ok,
                                               record_embedding_metrics>>))))

-----------------------------------------------------------------------------
(* Mem0 (instrumentation/mem0); the asynchronous methods are wrapped by a     *)
(* function that does not await them.                                         *)

mem0_set_mem0_span_attributes == set_attributes
mem0_set_mem0_content_attributes == Guarded(content_attributes)

mem0_mem0_wrap ==
    Attaching(Suppressible(Raising(
                               <<>>,
                               <<mem0_set_mem0_span_attributes>>
                               \o IfCapture(
                                      <<mem0_set_mem0_content_attributes>>)
                               \o <<set_status_ok>>)))

mem0_async_mem0_wrap ==
    Lazy(Suppressible(Raising(<<>>,
                              <<mem0_set_mem0_span_attributes>>
                              \o IfCapture(
                                     <<mem0_set_mem0_content_attributes>>)
                              \o <<set_status_ok>>)))

-----------------------------------------------------------------------------
(* Pydantic AI (instrumentation/pydantic_ai)                                  *)

pydantic_ai_set_span_attributes == set_attributes
pydantic_ai_add_message_tracking == Guarded(content_attributes)
pydantic_ai_add_tool_tracking == Guarded(set_attributes)

pydantic_ai_execute_with_error_handling ==
    IfCapture(<<content_attributes>>) \o <<set_status_ok>>

pydantic_ai_extract_context_info == Guarded(set_attributes)

pydantic_ai_add_business_intelligence_attributes ==
    <<Guarded(set_attributes)>> \o IfCapture(<<Guarded(content_attributes)>>)

pydantic_ai_common_agent_run ==
    Suppressible(Raising(<<pydantic_ai_set_span_attributes>>
                         \o IfCapture(<<pydantic_ai_add_message_tracking>>)
                         \o <<pydantic_ai_add_tool_tracking>>,
                         pydantic_ai_execute_with_error_handling
                         \o pydantic_ai_add_business_intelligence_attributes))

pydantic_ai_common_agent_run_async ==
    Async(Suppressible(
              Before(<<pydantic_ai_set_span_attributes>>
                     \o IfCapture(<<pydantic_ai_add_message_tracking>>)
                     \o <<pydantic_ai_add_tool_tracking>>,
                     Exposed(pydantic_ai_add_business_intelligence_attributes
                             \o <<set_status_ok>>))))

pydantic_ai_common_agent_create ==
    Suppressible(Raising(<<pydantic_ai_set_span_attributes,
                           pydantic_ai_add_tool_tracking>>,
                         pydantic_ai_execute_with_error_handling))

pydantic_ai_common_graph_execution ==
    Suppressible(Raising(<<pydantic_ai_set_span_attributes>>,
                         pydantic_ai_execute_with_error_handling))

pydantic_ai_common_internal_node ==
    Suppressible(Raising(<<pydantic_ai_extract_context_info, set_attributes,
                           content_attributes>>,
                         pydantic_ai_execute_with_error_handling))

-----------------------------------------------------------------------------
(* Model Context Protocol (instrumentation/mcp); no status is set on success. *)

mcp_extract_fastmcp_attributes == Guarded(set_attributes)
mcp_extract_auth_security_attributes == Guarded(set_attributes)
mcp_extract_session_attributes == Guarded(set_attributes)
mcp_extract_websocket_attributes == Guarded(set_attributes)
mcp_extract_performance_attributes == Guarded(set_attributes)
mcp_extract_manager_attributes == Guarded(set_attributes)
mcp_extract_memory_progress_attributes == Guarded(set_attributes)
mcp_extract_completion_attributes == Guarded(set_attributes)
mcp_extract_advanced_operation_attributes == Guarded(set_attributes)

mcp_extract_enhanced_mcp_attributes ==
    <<mcp_extract_fastmcp_attributes, mcp_extract_auth_security_attributes,
      mcp_extract_session_attributes, mcp_extract_websocket_attributes,
      mcp_extract_performance_attributes, mcp_extract_manager_attributes,
      mcp_extract_memory_progress_attributes,
      mcp_extract_completion_attributes,
      mcp_extract_advanced_operation_attributes>>

mcp_capture_mcp_content == Guarded(content_attributes)

mcp_set_mcp_span_attributes ==
    <<set_attributes>>
    \o IfCapture(<<mcp_capture_mcp_content>>)
    \o mcp_extract_enhanced_mcp_attributes

mcp_process_mcp_response ==
    mcp_set_mcp_span_attributes \o <<set_attributes>>
    \o IfCapture(<<Guarded(content_attributes)>>)
    \o <<If({"metrics"}, set_attributes), record_mcp_metrics>>

mcp_mcp_wrap ==
    Suppressible(KeepingBoth(mcp_set_mcp_span_attributes,
                             mcp_process_mcp_response))

mcp_async_mcp_wrap ==
    Async(Suppressible(KeepingBoth(mcp_set_mcp_span_attributes,
                                   mcp_process_mcp_response)))

mcp_create_jsonrpc_wrapper ==
    Async(MeteredErrors(Raising(IfCapture(<<content_attributes>>),
                                IfCapture(<<content_attributes>>)
                                \o <<record_mcp_metrics>>)))

-----------------------------------------------------------------------------
(* Firecrawl (instrumentation/firecrawl); an exception of the wrapped         *)
(* function leads to a second call of it.                                     *)

firecrawl_set_span_attributes == Guarded(common_framework_span_attributes)
firecrawl_process_single_response == <<Guarded(set_attributes)>>
firecrawl_capture_content_summary == Guarded(content_attributes)

firecrawl_process_response ==
    firecrawl_process_single_response
    \o IfCapture(<<firecrawl_capture_content_summary>>)
    \o <<set_status_ok>>

firecrawl_general_wrap ==
    Recalling(Suppressible(Raising(<<firecrawl_set_span_attributes>>,
                                   firecrawl_process_response)),
              "afresh", "kept")

firecrawl_async_general_wrap ==
    Async(Recalling(Suppressible(Raising(<<firecrawl_set_span_attributes>>,
                                         firecrawl_process_response)),
                    "afresh", "kept"))

-----------------------------------------------------------------------------
(* Letta (instrumentation/letta); any exception in the span leads to a second *)
(* call of the wrapped function.                                              *)

letta_set_llm_config_attributes == Guarded(set_attributes)
letta_set_usage_attributes == Guarded(set_attributes)
letta_set_request_attributes == Guarded(set_attributes)
letta_calculate_cost == Guarded(set_attributes)

letta_set_letta_specific_attributes ==
    <<set_attributes, letta_set_llm_config_attributes,
      letta_set_usage_attributes, letta_set_request_attributes>>

letta_set_content_attributes == Guarded(content_attributes)

letta_process_letta_response ==
    <<common_framework_span_attributes>>
    \o letta_set_letta_specific_attributes
    \o IfCapture(<<letta_set_content_attributes>>)
    \o <<letta_calculate_cost, set_status_ok>>

letta_process_chunk == response_as_dict({"text", "usage"})

letta_process_streaming_response ==
    [i \in DOMAIN letta_process_letta_response |->
        Guarded(letta_process_letta_response[i])]

letta_TracedLettaStream ==
    Stream("call", "replace", "mark", "leave", TRUE, letta_process_chunk,
           letta_process_streaming_response)

letta_create_letta_wrapper ==
    Recalling(Raising(<<>>, letta_process_letta_response), "recall", "recall")

\* Chat operations run before the span is started.
letta_send_message ==
    Streamed([letta_create_letta_wrapper EXCEPT !.before = TRUE],
             letta_TracedLettaStream)

letta_create_async_letta_wrapper ==
    Async(Recalling(Raising(<<>>, letta_process_letta_response),
                    "recall", "recall"))

\* An asynchronous stream is requested a second time inside the span.
letta_async_send_message ==
    Async(Streamed([letta_create_letta_wrapper EXCEPT !.before = TRUE],
                   Stream("twice", "own", "leave", "leave", FALSE,
                          letta_process_chunk,
                          <<>>)))

-----------------------------------------------------------------------------
\* Wrappers whose own failures never reach the application.
FrameworkCalls ==
    {ag2_conversable_agent, ag2_agent_run, ag2_agent_generate_reply,
     ag2_agent_receive, ag2_agent_send, ag2_groupchat_manager_run_chat,
     ag2_groupchat_select_speaker, agno_agent_run_wrap,
     agno_agent_run_tool_wrap, agno_agent_continue_run_wrap,
     agno_agent_add_tool_wrap, agno_session_memory_wrap,
     agno_model_run_function_call_wrap, agno_function_entrypoint_wrap,
     agno_function_execute_wrap, agno_reasoning_tool_wrap, agno_reasoning_wrap,
     agno_memory_operation_wrap, agno_memory_add_wrap, agno_memory_search_wrap,
     agno_vectordb_search_wrap, agno_vectordb_upsert_wrap,
     agno_knowledge_search_wrap, agno_knowledge_add_wrap,
     agno_workflow_run_wrap, agno_team_run_wrap,
     agno_async_agent_continue_run_wrap,
     agno_async_model_run_function_call_wrap,
     agno_async_function_entrypoint_wrap, agno_async_team_run_wrap,
     agno_async_function_execute_wrap, agno_async_reasoning_wrap,
     crewai_general_wrap, crewai_async_general_wrap, haystack_general_wrap,
     haystack_async_general_wrap, llamaindex_general_wrap,
     llamaindex_async_general_wrap, controlflow_wrap_controlflow,
     dynamiq_dynamiq_wrap, julep_wrap_julep, julep_async_wrap_julep,
     multion_multion_wrap, multion_async_multion_wrap, mcp_mcp_wrap,
     mcp_async_mcp_wrap}

\* Wrappers with steps that can raise to the application: before the call, or
\* in a try they share with it.  LangChain's embeddings record their duration
\* in that try, after OK.
FragileBefore ==
    {browser_use_general_wrap, browser_use_async_general_wrap,
     crawl4ai_general_wrap, crawl4ai_async_general_wrap, crawl4ai_extract,
     langgraph_general_wrap, langgraph_handle_stream,
     langgraph_async_general_wrap, langgraph_create_async_stream_wrapper,
     langgraph_async_checkpoint_wrap, langgraph_wrap_compile,
     langchain_wrap_create_agent, langchain_wrap_embed,
     langchain_wrap_embed_async, mem0_mem0_wrap, pydantic_ai_common_agent_run,
     pydantic_ai_common_agent_run_async, pydantic_ai_common_agent_create,
     pydantic_ai_common_graph_execution, pydantic_ai_common_internal_node,
     langgraph_create_wrapped_node, mcp_create_jsonrpc_wrapper}

\* Generators whose span follows the outcome.
GeneratorStreams ==
    {agno_async_workflow_run_wrap}

\* Generators that mark the span OK in a finally, whatever happened.
OverruledStreams ==
    {agno_async_agent_run_wrap, agno_async_agent_run_stream_wrap,
     agno_async_team_run_stream_wrap}

\* Coroutine functions called and not awaited.
UnawaitedCalls ==
    {mem0_async_mem0_wrap}

\* Wrappers that call the wrapped function again.
RecallingCalls ==
    {firecrawl_general_wrap, firecrawl_async_general_wrap,
     letta_create_letta_wrapper, letta_send_message,
     letta_create_async_letta_wrapper, letta_async_send_message}

\* Wrappers that put content on the span whatever the capture setting.
UngatedFrameworks ==
    {langgraph_create_wrapped_node, pydantic_ai_common_internal_node,
     crewai_general_wrap, crewai_async_general_wrap, haystack_general_wrap,
     haystack_async_general_wrap, agno_vectordb_search_wrap,
     agno_vectordb_upsert_wrap}

\* Wrappers whose helpers mark the span before it is set to OK.
NotingCalls == {crewai_general_wrap, crewai_async_general_wrap}
=============================================================================
