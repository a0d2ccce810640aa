----------------------------- MODULE DataStores ------------------------------
(* The instrumentations of the vector stores and of psycopg: what each        *)
(* response function and wrapper does, in the terms of module Telemetry.  The *)
(* vector stores' put queries and documents on the span under no setting.     *)
EXTENDS Telemetry

-----------------------------------------------------------------------------
(* Astra DB (instrumentation/astra)                                           *)

astra_common_astra_logic ==
    <<common_db_span_attributes, content_attributes, set_status_ok,
      record_db_metrics>>

astra_process_astra_response == astra_common_astra_logic
astra_general_wrap == Suppressible(Wrapper(astra_process_astra_response))

astra_async_general_wrap ==
    Async(Suppressible(Wrapper(astra_process_astra_response)))

-----------------------------------------------------------------------------
(* Chroma (instrumentation/chroma)                                            *)

chroma_common_vectordb_logic ==
    <<common_db_span_attributes, content_attributes, set_status_ok,
      record_db_metrics>>

chroma_process_vectordb_response == chroma_common_vectordb_logic
chroma_general_wrap == Suppressible(Wrapper(chroma_process_vectordb_response))

-----------------------------------------------------------------------------
(* Milvus (instrumentation/milvus)                                            *)

milvus_common_milvus_logic ==
    <<common_db_span_attributes, content_attributes, set_status_ok,
      record_db_metrics>>

milvus_process_milvus_response == milvus_common_milvus_logic
milvus_general_wrap == Suppressible(Wrapper(milvus_process_milvus_response))

-----------------------------------------------------------------------------
(* Pinecone (instrumentation/pinecone)                                        *)

pinecone_common_vectordb_logic ==
    <<common_db_span_attributes, content_attributes, set_status_ok,
      record_db_metrics>>

pinecone_process_vectordb_response == pinecone_common_vectordb_logic

pinecone_general_wrap ==
    Suppressible(Wrapper(pinecone_process_vectordb_response))

pinecone_async_general_wrap ==
    Async(Suppressible(Wrapper(pinecone_process_vectordb_response)))

-----------------------------------------------------------------------------
(* Qdrant (instrumentation/qdrant)                                            *)

qdrant_common_qdrant_logic ==
    <<common_db_span_attributes, content_attributes, set_status_ok,
      record_db_metrics>>

qdrant_process_qdrant_response == qdrant_common_qdrant_logic
qdrant_general_wrap == Suppressible(Wrapper(qdrant_process_qdrant_response))

qdrant_async_general_wrap ==
    Async(Suppressible(Wrapper(qdrant_process_qdrant_response)))

-----------------------------------------------------------------------------
(* PostgreSQL through psycopg (instrumentation/psycopg); the query text needs *)
(* the capture setting.  The parameters need a setting of their own, which is *)
(* off unless asked for, and are attributes here.                             *)

psycopg_detect_special_features == set_attributes
psycopg_get_query_summary == set_attributes
psycopg_format_parameters == set_attributes

psycopg_common_psycopg_logic ==
    <<common_db_span_attributes>>
    \o IfCapture(<<content_attributes>>)
    \o <<psycopg_format_parameters, psycopg_get_query_summary,
         psycopg_detect_special_features>>
    \o <<set_status_ok, record_db_metrics>>

psycopg_process_cursor_response == psycopg_common_psycopg_logic
psycopg_process_connection_response == psycopg_common_psycopg_logic
psycopg_execute_wrap == Suppressible(Wrapper(psycopg_process_cursor_response))

psycopg_async_execute_wrap ==
    Async(Suppressible(Wrapper(psycopg_process_cursor_response)))

psycopg_executemany_wrap ==
    Suppressible(Wrapper(psycopg_process_cursor_response))

psycopg_async_executemany_wrap ==
    Async(Suppressible(Wrapper(psycopg_process_cursor_response)))

psycopg_copy_wrap == Suppressible(Wrapper(psycopg_process_cursor_response))

psycopg_async_copy_wrap ==
    Async(Suppressible(Wrapper(psycopg_process_cursor_response)))

psycopg_callproc_wrap ==
    Suppressible(Wrapper(psycopg_process_cursor_response))

psycopg_async_callproc_wrap ==
    Async(Suppressible(Wrapper(psycopg_process_cursor_response)))

psycopg_commit_wrap ==
    Suppressible(Wrapper(psycopg_process_connection_response))

psycopg_async_commit_wrap ==
    Async(Suppressible(Wrapper(psycopg_process_connection_response)))

psycopg_rollback_wrap ==
    Suppressible(Wrapper(psycopg_process_connection_response))

psycopg_async_rollback_wrap ==
    Async(Suppressible(Wrapper(psycopg_process_connection_response)))

psycopg_pool_getconn_wrap ==
    Suppressible(Wrapper(psycopg_process_connection_response))

psycopg_async_pool_getconn_wrap ==
    Async(Suppressible(Wrapper(psycopg_process_connection_response)))

-----------------------------------------------------------------------------
\* The wrappers of all stores.
StoreCalls ==
    {astra_general_wrap, astra_async_general_wrap, chroma_general_wrap,
     milvus_general_wrap, pinecone_general_wrap, pinecone_async_general_wrap,
     qdrant_general_wrap, qdrant_async_general_wrap, psycopg_execute_wrap,
     psycopg_async_execute_wrap, psycopg_executemany_wrap,
     psycopg_async_executemany_wrap, psycopg_copy_wrap,
     psycopg_async_copy_wrap, psycopg_callproc_wrap,
     psycopg_async_callproc_wrap, psycopg_commit_wrap,
     psycopg_async_commit_wrap, psycopg_rollback_wrap,
     psycopg_async_rollback_wrap, psycopg_pool_getconn_wrap,
     psycopg_async_pool_getconn_wrap}

\* Those that put content on the span whatever the capture setting.
UngatedStores ==
    {astra_general_wrap, astra_async_general_wrap, chroma_general_wrap,
     milvus_general_wrap, pinecone_general_wrap, pinecone_async_general_wrap,
     qdrant_general_wrap, qdrant_async_general_wrap}
=============================================================================
