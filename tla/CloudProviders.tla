--------------------------- MODULE CloudProviders ----------------------------
(* The instrumentations of the model vendors' own services: what each         *)
(* response function, traced stream and wrapper does, in the terms of module  *)
(* Telemetry.                                                                 *)
EXTENDS Telemetry

-----------------------------------------------------------------------------
(* AI21 (instrumentation/ai21)                                                *)

ai21_process_chunk == response_as_dict({"usage", "id", "finish", "text"})
ai21_build_input_messages == build_messages
ai21_build_output_messages == build_messages
ai21_emit_inference_event == emit_inference_event

ai21_common_chat_logic ==
    <<format_content, reported_tokens, common_span_attributes, tool_args>>
    \o IfCapture(<<ai21_build_input_messages, ai21_build_output_messages,
                   set_span_messages_as_array, ai21_emit_inference_event>>)
    \o <<set_status_ok, record_completion_metrics>>

ai21_process_streaming_chat_response == ai21_common_chat_logic

ai21_process_chat_response ==
    <<response_as_dict({"text", "id", "model", "usage", "finish", "tools"})>>
    \o ai21_common_chat_logic

ai21_common_chat_rag_logic ==
    <<format_content, common_span_attributes>>
    \o IfCapture(<<content_attributes>>)
    \o <<set_status_ok, record_completion_metrics>>

ai21_process_chat_rag_response ==
    <<response_as_dict({"text", "id"}), format_content,
      always_general_tokens>>
    \o ai21_common_chat_rag_logic

ai21_TracedSyncStream ==
    Replacing(ai21_process_chunk, ai21_process_streaming_chat_response)

ai21_chat ==
    Streamed(Metered(ai21_process_chat_response), ai21_TracedSyncStream)

ai21_TracedAsyncStream ==
    Replacing(ai21_process_chunk, ai21_process_streaming_chat_response)

ai21_async_chat ==
    Async(Streamed(Metered(ai21_process_chat_response),
                   ai21_TracedAsyncStream))

ai21_chat_rag == Metered(ai21_process_chat_rag_response)
ai21_async_chat_rag == Async(Metered(ai21_process_chat_rag_response))

-----------------------------------------------------------------------------
(* Anthropic (instrumentation/anthropic)                                      *)

anthropic_process_chunk ==
    response_as_dict({"id", "usage", "model", "finish", "text", "tools"})

anthropic_build_input_messages == Guarded(build_messages)
anthropic_build_output_messages == Guarded(build_messages)
anthropic_emit_inference_event == emit_inference_event

anthropic_common_chat_logic ==
    <<format_content, reported_tokens, common_span_attributes, tool_args>>
    \o IfCapture(<<anthropic_build_input_messages,
                   anthropic_build_output_messages,
                   set_span_messages_as_array, content_attributes,
                   anthropic_emit_inference_event>>)
    \o <<set_status_ok, record_completion_metrics>>

anthropic_process_streaming_chat_response == anthropic_common_chat_logic

anthropic_process_chat_response ==
    <<response_as_dict({"text", "usage", "model", "finish", "id", "tools"})>>
    \o anthropic_common_chat_logic

anthropic_TracedSyncStream ==
    Closing(anthropic_process_chunk,
            anthropic_process_streaming_chat_response)

anthropic_messages ==
    Streamed(Metered(anthropic_process_chat_response),
             anthropic_TracedSyncStream)

anthropic_TracedAsyncStream ==
    Closing(anthropic_process_chunk,
            anthropic_process_streaming_chat_response)

anthropic_async_messages ==
    Async(Streamed(Metered(anthropic_process_chat_response),
                   anthropic_TracedAsyncStream))

-----------------------------------------------------------------------------
(* Azure AI Inference (instrumentation/azure_ai_inference).  The stream       *)
(* finishes its telemetry in __exit__ and ends no span.                       *)

azure_ai_inference_process_chunk ==
    response_as_dict({"usage", "text", "reasoning", "finish", "tools"})

azure_ai_inference_build_input_messages == build_messages
azure_ai_inference_build_output_messages == build_messages
azure_ai_inference_emit_inference_event == emit_inference_event

azure_ai_inference_common_chat_logic ==
    <<format_content, reported_tokens, common_span_attributes, tool_args>>
    \o IfCapture(<<azure_ai_inference_build_input_messages,
                   azure_ai_inference_build_output_messages,
                   set_span_messages_as_array, content_attributes,
                   azure_ai_inference_emit_inference_event>>)
    \o <<set_status_ok, record_completion_metrics>>

azure_ai_inference_process_streaming_chat_response ==
    azure_ai_inference_common_chat_logic

azure_ai_inference_process_chat_response ==
    <<response_as_dict({"text", "usage", "id", "model", "finish", "reasoning", "tools"})>>
    \o azure_ai_inference_common_chat_logic

azure_ai_inference_common_embedding_logic ==
    <<reported_tokens, common_span_attributes>>
    \o IfCapture(<<content_attributes,
                   azure_ai_inference_emit_inference_event>>)
    \o <<set_status_ok, record_embedding_metrics>>

azure_ai_inference_process_embedding_response ==
    <<response_as_dict({"usage", "id", "model"})>>
    \o azure_ai_inference_common_embedding_logic

azure_ai_inference_TracedSyncStream ==
    ExitingLate(azure_ai_inference_process_chunk,
                azure_ai_inference_process_streaming_chat_response)

azure_ai_inference_complete ==
    Streamed(Metered(azure_ai_inference_process_chat_response),
             azure_ai_inference_TracedSyncStream)

azure_ai_inference_TracedAsyncStream ==
    ExitingLate(azure_ai_inference_process_chunk,
                azure_ai_inference_process_streaming_chat_response)

azure_ai_inference_async_complete ==
    Async(Streamed(Metered(azure_ai_inference_process_chat_response),
                   azure_ai_inference_TracedAsyncStream))

azure_ai_inference_embed ==
    Metered(azure_ai_inference_process_embedding_response)

azure_ai_inference_async_embed ==
    Async(Metered(azure_ai_inference_process_embedding_response))

-----------------------------------------------------------------------------
(* AWS Bedrock (instrumentation/bedrock); the response functions mark the     *)
(* span and raise to the wrapper, whose handler marks it again.               *)

bedrock_process_chunk == response_as_dict({"finish", "usage", "text"})
bedrock_build_input_messages == build_messages
bedrock_build_output_messages == build_messages
bedrock_emit_inference_event == emit_inference_event

bedrock_common_chat_logic ==
    <<format_content, reported_tokens, common_span_attributes, tool_args>>
    \o IfCapture(<<bedrock_build_input_messages,
                   bedrock_build_output_messages, set_span_messages_as_array,
                   content_attributes, bedrock_emit_inference_event>>)
    \o <<set_status_ok, record_completion_metrics>>

bedrock_process_streaming_chat_response == bedrock_common_chat_logic

bedrock_process_chat_response ==
    <<response_as_dict({"text", "usage", "finish", "id"})>>
    \o bedrock_common_chat_logic

bedrock_TracedSyncStream ==
    Replacing(bedrock_process_chunk, bedrock_process_streaming_chat_response)

bedrock_converse == Metered(bedrock_process_chat_response)
bedrock_converse_stream == OnlyStreams(bedrock_TracedSyncStream)

-----------------------------------------------------------------------------
(* Cohere (instrumentation/cohere); the tool plan goes on the span whatever   *)
(* the capture setting.                                                       *)

cohere_process_chunk ==
    response_as_dict({"id", "finish", "usage", "text", "reasoning", "tools"})

cohere_build_input_messages == build_messages
cohere_build_output_messages == build_messages
cohere_emit_inference_event == emit_inference_event

cohere_common_chat_logic ==
    <<reported_tokens, common_span_attributes, tool_args,
      If({"reasoning"}, content_attributes)>>
    \o IfCapture(<<cohere_build_input_messages, cohere_build_output_messages,
                   set_span_messages_as_array, cohere_emit_inference_event>>)
    \o <<set_status_ok, record_completion_metrics>>

cohere_process_streaming_chat_response == cohere_common_chat_logic

cohere_process_chat_response ==
    <<response_as_dict({"id", "usage", "finish", "text", "tools", "reasoning"})>>
    \o cohere_common_chat_logic

cohere_common_embedding_logic ==
    <<reported_tokens, common_span_attributes>>
    \o IfCapture(<<content_attributes>>)
    \o <<set_status_ok, record_embedding_metrics>>

cohere_process_embedding_response ==
    <<response_as_dict({"usage", "id"})>> \o cohere_common_embedding_logic

cohere_chat == Metered(cohere_process_chat_response)
cohere_async_chat == Async(Metered(cohere_process_chat_response))

cohere_TracedSyncStream ==
    Replacing(cohere_process_chunk, cohere_process_streaming_chat_response)

cohere_chat_stream == OnlyStreams(cohere_TracedSyncStream)

cohere_TracedAsyncStream ==
    Replacing(cohere_process_chunk, cohere_process_streaming_chat_response)

cohere_async_chat_stream == Async(OnlyStreams(cohere_TracedAsyncStream))
cohere_embed == Metered(cohere_process_embedding_response)
cohere_async_embed == Async(Metered(cohere_process_embedding_response))

-----------------------------------------------------------------------------
(* Google AI Studio (instrumentation/google_ai_studio); process_chunk has a   *)
(* try around the tools only, and the stream starts no span until it ends.    *)

google_ai_studio_process_chunk ==
    response_as_dict({"id", "usage", "model", "text", "finish", "tools",
                      "reasoning"})

google_ai_studio_build_input_messages == Guarded(build_messages)
google_ai_studio_build_output_messages == Guarded(build_messages)
google_ai_studio_emit_inference_event == emit_inference_event

google_ai_studio_common_chat_logic ==
    <<format_content, reported_tokens, common_span_attributes, tool_args>>
    \o IfCapture(<<google_ai_studio_build_input_messages,
                   google_ai_studio_build_output_messages,
                   set_span_messages_as_array, content_attributes,
                   google_ai_studio_emit_inference_event>>)
    \o <<set_status_ok, record_completion_metrics>>

google_ai_studio_process_streaming_chat_response ==
    google_ai_studio_common_chat_logic

google_ai_studio_process_chat_response ==
    <<response_as_dict({"text", "id", "model", "usage", "finish", "tools", "reasoning"})>>
    \o google_ai_studio_common_chat_logic

google_ai_studio_generate == Metered(google_ai_studio_process_chat_response)

google_ai_studio_async_generate ==
    Async(Metered(google_ai_studio_process_chat_response))

google_ai_studio_TracedSyncStream ==
    StartingAtEnd(google_ai_studio_process_chunk,
                  google_ai_studio_process_streaming_chat_response)

google_ai_studio_generate_stream ==
    OnlyStreams(google_ai_studio_TracedSyncStream)

google_ai_studio_TracedAsyncStream ==
    StartingAtEnd(google_ai_studio_process_chunk,
                  google_ai_studio_process_streaming_chat_response)

google_ai_studio_async_generate_stream ==
    Async(OnlyStreams(google_ai_studio_TracedAsyncStream))

-----------------------------------------------------------------------------
(* Groq (instrumentation/groq)                                                *)

groq_process_chunk ==
    response_as_dict({"text", "usage", "id", "model", "finish"})

groq_build_input_messages == Guarded(build_messages)
groq_build_output_messages == Guarded(build_messages)
groq_emit_inference_event == emit_inference_event

groq_common_chat_logic ==
    <<format_content, reported_tokens, common_span_attributes, tool_args>>
    \o IfCapture(<<groq_build_input_messages, groq_build_output_messages,
                   set_span_messages_as_array, groq_emit_inference_event>>)
    \o <<set_status_ok, record_completion_metrics>>

groq_process_streaming_chat_response == groq_common_chat_logic

groq_process_chat_response ==
    <<response_as_dict({"text", "id", "model", "usage", "finish", "tools"})>>
    \o groq_common_chat_logic

groq_TracedSyncStream ==
    Replacing(groq_process_chunk, groq_process_streaming_chat_response)

groq_chat ==
    Streamed(Metered(groq_process_chat_response), groq_TracedSyncStream)

groq_TracedAsyncStream ==
    Replacing(groq_process_chunk, groq_process_streaming_chat_response)

groq_async_chat ==
    Async(Streamed(Metered(groq_process_chat_response),
                   groq_TracedAsyncStream))

-----------------------------------------------------------------------------
(* Mistral (instrumentation/mistral)                                          *)

mistral_process_chunk ==
    response_as_dict({"usage", "id", "model", "finish", "text", "tools"})

mistral_build_input_messages == Guarded(build_messages)
mistral_build_output_messages == Guarded(build_messages)
mistral_emit_inference_event == emit_inference_event

mistral_common_chat_logic ==
    <<reported_tokens, common_span_attributes, tool_args>>
    \o IfCapture(<<mistral_build_input_messages,
                   mistral_build_output_messages, set_span_messages_as_array,
                   mistral_emit_inference_event>>)
    \o <<set_status_ok, record_completion_metrics>>

mistral_process_streaming_chat_response == mistral_common_chat_logic

mistral_process_chat_response ==
    <<response_as_dict({"text", "id", "model", "usage", "finish", "tools"})>>
    \o mistral_common_chat_logic

mistral_common_embedding_logic ==
    <<reported_tokens, common_span_attributes>>
    \o IfCapture(<<content_attributes>>)
    \o <<set_status_ok, record_embedding_metrics>>

mistral_process_embedding_response ==
    <<response_as_dict({"usage", "id", "model"})>>
    \o mistral_common_embedding_logic

mistral_complete == Metered(mistral_process_chat_response)
mistral_async_complete == Async(Metered(mistral_process_chat_response))

mistral_TracedSyncStream ==
    Replacing(mistral_process_chunk, mistral_process_streaming_chat_response)

mistral_stream == OnlyStreams(mistral_TracedSyncStream)

mistral_TracedAsyncStream ==
    Replacing(mistral_process_chunk, mistral_process_streaming_chat_response)

mistral_async_stream == Async(OnlyStreams(mistral_TracedAsyncStream))
mistral_embed == Metered(mistral_process_embedding_response)
mistral_async_embed == Async(Metered(mistral_process_embedding_response))

-----------------------------------------------------------------------------
(* OpenAI (instrumentation/openai): chat, responses, embeddings, images,      *)
(* audio.  process_chat_chunk never looks for the usage of a stream, and has  *)
(* a try around the finish reason only.                                       *)

openai_process_chat_chunk ==
    response_as_dict({"id", "model", "finish", "text", "tools"})

openai_process_response_chunk ==
    response_as_dict({"text", "tools", "id", "model", "finish", "usage",
                      "reasoning"})

openai_build_input_messages == Guarded(build_messages)
openai_build_output_messages == Guarded(build_messages)
openai_emit_inference_event == emit_inference_event

openai_common_response_logic ==
    <<format_content, general_tokens, common_span_attributes, tool_args>>
    \o IfCapture(<<openai_build_input_messages, openai_build_output_messages,
                   set_span_messages_as_array, content_attributes,
                   openai_emit_inference_event>>)
    \o <<set_status_ok, record_completion_metrics>>

openai_process_streaming_response_response == openai_common_response_logic

openai_process_response_response ==
    <<response_as_dict({"text", "id", "model", "usage", "finish", "tools", "reasoning"})>>
    \o openai_common_response_logic

openai_common_chat_logic ==
    <<format_content, general_tokens, common_span_attributes, tool_args>>
    \o IfCapture(<<openai_build_input_messages, openai_build_output_messages,
                   set_span_messages_as_array, content_attributes,
                   openai_emit_inference_event>>)
    \o <<set_status_ok, record_completion_metrics>>

openai_process_streaming_chat_response == openai_common_chat_logic

openai_process_chat_response ==
    <<response_as_dict({"text", "id", "model", "usage", "finish", "tools"})>>
    \o openai_common_chat_logic

openai_common_embedding_logic ==
    <<reported_tokens, common_span_attributes>>
    \o IfCapture(<<set_span_messages_as_array, openai_emit_inference_event>>)
    \o <<set_status_ok, record_embedding_metrics>>

openai_common_image_logic ==
    <<common_span_attributes>>
    \o IfCapture(<<set_span_messages_as_array, content_attributes,
                   openai_emit_inference_event>>)
    \o <<set_status_ok, record_image_metrics>>

openai_common_audio_logic ==
    <<common_span_attributes>>
    \o IfCapture(<<set_span_messages_as_array, openai_emit_inference_event>>)
    \o <<set_status_ok, record_audio_metrics>>

openai_process_audio_response == openai_common_audio_logic

openai_process_embedding_response ==
    <<response_as_dict({"usage", "model"})>> \o openai_common_embedding_logic

openai_process_image_response ==
    <<response_as_dict({"text"})>> \o openai_common_image_logic

openai_TracedSyncStream ==
    Closing(openai_process_chat_chunk, openai_process_streaming_chat_response)

openai_chat_completions ==
    UnlessFramework(Streamed(Metered(openai_process_chat_response),
                             openai_TracedSyncStream))

openai_TracedAsyncStream ==
    Closing(openai_process_chat_chunk, openai_process_streaming_chat_response)

openai_async_chat_completions ==
    Async(UnlessFramework(Streamed(Metered(openai_process_chat_response),
                                   openai_TracedAsyncStream)))

openai_TracedSyncStream_responses ==
    Closing(openai_process_response_chunk,
            openai_process_streaming_response_response)

openai_responses ==
    Streamed(Metered(openai_process_response_response),
             openai_TracedSyncStream_responses)

openai_TracedAsyncStream_responses ==
    Closing(openai_process_response_chunk,
            openai_process_streaming_response_response)

openai_async_responses ==
    Async(Streamed(Metered(openai_process_response_response),
                   openai_TracedAsyncStream_responses))

openai_chat_completions_parse == Metered(openai_process_chat_response)

openai_async_chat_completions_parse ==
    Async(Metered(openai_process_chat_response))

openai_embedding == Metered(openai_process_embedding_response)
openai_async_embedding == Async(Metered(openai_process_embedding_response))
openai_image_generate == Metered(openai_process_image_response)
openai_async_image_generate == Async(Metered(openai_process_image_response))
openai_image_variatons == Metered(openai_process_image_response)
openai_async_image_variations == Async(Metered(openai_process_image_response))
openai_audio_create == Metered(openai_process_audio_response)
openai_async_audio_create == Async(Metered(openai_process_audio_response))

-----------------------------------------------------------------------------
(* Vertex AI (instrumentation/vertexai)                                       *)

vertexai_process_chunk == response_as_dict({"text", "usage"})
vertexai_build_input_messages == Guarded(build_messages)
vertexai_build_output_messages == Guarded(build_messages)
vertexai_emit_inference_event == emit_inference_event

vertexai_common_chat_logic ==
    <<format_content, reported_tokens, common_span_attributes, tool_args>>
    \o IfCapture(<<vertexai_build_input_messages,
                   vertexai_build_output_messages, set_span_messages_as_array,
                   vertexai_emit_inference_event>>)
    \o <<set_status_ok, record_completion_metrics>>

vertexai_process_streaming_chat_response == vertexai_common_chat_logic

vertexai_process_chat_response ==
    <<response_as_dict({"text", "usage", "finish", "id"})>>
    \o vertexai_common_chat_logic

vertexai_TracedSyncStream ==
    Closing(vertexai_process_chunk, vertexai_process_streaming_chat_response)

vertexai_send_message ==
    Streamed(Metered(vertexai_process_chat_response),
             vertexai_TracedSyncStream)

vertexai_TracedAsyncStream ==
    Closing(vertexai_process_chunk, vertexai_process_streaming_chat_response)

vertexai_async_send_message ==
    Async(Streamed(Metered(vertexai_process_chat_response),
                   vertexai_TracedAsyncStream))
=============================================================================
