---------------------------- MODULE LlmProviders -----------------------------
(* The instrumentations of gateways, local runtimes, speech services and the  *)
(* other providers, in the terms of module Telemetry, and the wrappers of all *)
(* providers grouped by what they do.                                         *)
EXTENDS CloudProviders

-----------------------------------------------------------------------------
(* ElevenLabs (instrumentation/elevenlabs) and AssemblyAI                     *)
(* (instrumentation/assemblyai); AssemblyAI calls the library inside the try  *)
(* of its response logic.                                                     *)

elevenlabs_build_input_messages == build_messages
elevenlabs_build_output_messages == build_messages
elevenlabs_emit_inference_event == emit_inference_event

elevenlabs_common_audio_logic ==
    <<format_content, common_span_attributes>>
    \o IfCapture(<<elevenlabs_build_input_messages,
                   elevenlabs_build_output_messages,
                   set_span_messages_as_array,
                   elevenlabs_emit_inference_event>>)
    \o <<set_status_ok, record_audio_metrics>>

elevenlabs_process_audio_response == elevenlabs_common_audio_logic
elevenlabs_generate == Wrapper(elevenlabs_process_audio_response)
elevenlabs_async_generate == Async(Wrapper(elevenlabs_process_audio_response))
assemblyai_build_input_messages == build_messages
assemblyai_build_output_messages == build_messages
assemblyai_emit_inference_event == emit_inference_event

assemblyai_common_audio_logic ==
    <<common_span_attributes>>
    \o IfCapture(<<assemblyai_build_input_messages,
                   assemblyai_build_output_messages,
                   set_span_messages_as_array,
                   assemblyai_emit_inference_event>>)
    \o <<set_status_ok, record_audio_metrics>>

assemblyai_process_audio_response ==
    <<response_as_dict({"usage", "text", "id"})>>
    \o assemblyai_common_audio_logic

assemblyai_transcribe == Losing(assemblyai_process_audio_response)

-----------------------------------------------------------------------------
(* GPT4All (instrumentation/gpt4all); messages are set without asking for the *)
(* capture setting.                                                           *)

gpt4all_process_chunk == response_as_dict({"text"})
gpt4all_build_input_messages == build_messages
gpt4all_build_output_messages == build_messages
gpt4all_emit_inference_event == emit_inference_event

gpt4all_common_generate_logic ==
    <<format_content, always_general_tokens, common_span_attributes,
      tool_args, gpt4all_build_input_messages, gpt4all_build_output_messages,
      set_span_messages_as_array>>
    \o IfCapture(<<gpt4all_emit_inference_event>>)
    \o <<set_status_ok, record_completion_metrics>>

gpt4all_process_streaming_generate_response == gpt4all_common_generate_logic

gpt4all_process_generate_response ==
    <<format_content, response_as_dict({"text"})>>
    \o gpt4all_common_generate_logic

gpt4all_common_embedding_logic ==
    <<format_content, always_general_tokens, common_span_attributes>>
    \o IfCapture(<<content_attributes>>)
    \o <<set_status_ok, record_embedding_metrics>>

gpt4all_process_embedding_response == gpt4all_common_embedding_logic

gpt4all_TracedSyncStream ==
    Replacing(gpt4all_process_chunk,
              gpt4all_process_streaming_generate_response)

gpt4all_generate ==
    Streamed(Metered(gpt4all_process_generate_response),
             gpt4all_TracedSyncStream)

gpt4all_embed == Metered(gpt4all_process_embedding_response)

-----------------------------------------------------------------------------
(* LiteLLM (instrumentation/litellm); process_chunk has a try around the      *)
(* finish reason only; both streams end their span themselves; the async one  *)
(* also reports when it is cancelled.                                         *)

litellm_process_chunk ==
    response_as_dict({"id", "model", "finish", "usage", "text", "tools"})

litellm_build_input_messages == build_messages
litellm_build_output_messages == build_messages
litellm_emit_inference_event == emit_inference_event

litellm_common_chat_logic ==
    <<reported_tokens, common_span_attributes, tool_args>>
    \o IfCapture(<<litellm_build_input_messages,
                   litellm_build_output_messages, set_span_messages_as_array,
                   litellm_emit_inference_event>>)
    \o <<set_status_ok, record_completion_metrics>>

litellm_process_streaming_chat_response == litellm_common_chat_logic

litellm_process_chat_response ==
    <<response_as_dict({"text", "id", "model", "usage", "finish", "tools"})>>
    \o litellm_common_chat_logic

litellm_process_embedding_response ==
    <<response_as_dict({"usage", "id", "model"}), reported_tokens,
      common_span_attributes>>
    \o IfCapture(<<content_attributes, litellm_emit_inference_event>>)
    \o <<set_status_ok, record_embedding_metrics>>

litellm_TracedSyncStream ==
    Closing(litellm_process_chunk, litellm_process_streaming_chat_response)

litellm_TracedAsyncStream ==
    [Closing(litellm_process_chunk, litellm_process_streaming_chat_response)
        EXCEPT !.quits = "finish"]

litellm_completion ==
    Streamed(Metered(litellm_process_chat_response), litellm_TracedSyncStream)

litellm_acompletion ==
    Async(Streamed(Metered(litellm_process_chat_response),
                   litellm_TracedAsyncStream))

litellm_embedding == Metered(litellm_process_embedding_response)
litellm_aembedding == Async(Metered(litellm_process_embedding_response))

-----------------------------------------------------------------------------
(* Ollama (instrumentation/ollama): chat, generate and embeddings             *)

ollama_process_chunk ==
    response_as_dict({"text", "tools", "usage", "model", "finish"})

ollama_build_input_messages == build_messages
ollama_build_output_messages == build_messages
ollama_emit_inference_event == emit_inference_event

ollama_common_chat_logic ==
    <<reported_tokens, common_span_attributes, tool_args>>
    \o IfCapture(<<ollama_build_input_messages, ollama_build_output_messages,
                   set_span_messages_as_array, ollama_emit_inference_event>>)
    \o <<set_status_ok, record_completion_metrics>>

ollama_common_generate_logic ==
    <<reported_tokens, common_span_attributes, tool_args>>
    \o IfCapture(<<ollama_build_output_messages, set_span_messages_as_array,
                   ollama_emit_inference_event>>)
    \o <<set_status_ok, record_completion_metrics>>

ollama_common_embedding_logic ==
    <<always_general_tokens, common_span_attributes>>
    \o IfCapture(<<content_attributes, ollama_emit_inference_event>>)
    \o <<set_status_ok, record_embedding_metrics>>

ollama_process_streaming_chat_response == ollama_common_chat_logic

ollama_process_chat_response ==
    <<response_as_dict({"text", "usage", "model", "finish", "tools"})>>
    \o ollama_common_chat_logic

ollama_process_streaming_generate_response == ollama_common_generate_logic

ollama_process_generate_response ==
    <<response_as_dict({"text", "usage", "model", "finish", "tools"})>>
    \o ollama_common_generate_logic

ollama_process_embedding_response == ollama_common_embedding_logic

ollama_TracedSyncStream ==
    Replacing(ollama_process_chunk, ollama_process_streaming_chat_response)

ollama_chat ==
    Streamed(Metered(ollama_process_chat_response), ollama_TracedSyncStream)

ollama_TracedAsyncStream ==
    Replacing(ollama_process_chunk, ollama_process_streaming_chat_response)

ollama_async_chat ==
    Async(Streamed(Metered(ollama_process_chat_response),
                   ollama_TracedAsyncStream))

ollama_TracedSyncStream_generate ==
    Replacing(ollama_process_chunk,
              ollama_process_streaming_generate_response)

ollama_generate ==
    Streamed(Metered(ollama_process_generate_response),
             ollama_TracedSyncStream_generate)

ollama_TracedAsyncStream_generate ==
    Replacing(ollama_process_chunk,
              ollama_process_streaming_generate_response)

ollama_async_generate ==
    Async(Streamed(Metered(ollama_process_generate_response),
                   ollama_TracedAsyncStream_generate))

ollama_embeddings == Metered(ollama_process_embedding_response)
ollama_async_embeddings == Async(Metered(ollama_process_embedding_response))

-----------------------------------------------------------------------------
(* PremAI (instrumentation/premai).  The traced stream has an __iter__ that   *)
(* reads one chunk, reports the call and returns the chunk where Python       *)
(* expects an iterator.                                                       *)

premai_process_chunk ==
    response_as_dict({"usage", "text", "finish", "id", "model"})

premai_build_input_messages == Guarded(build_messages)
premai_build_output_messages == Guarded(build_messages)
premai_emit_inference_event == emit_inference_event

premai_common_chat_logic(is_stream) ==
    <<format_content,
      IF is_stream THEN always_general_tokens ELSE reported_tokens,
      common_span_attributes, tool_args>>
    \o IfCapture(<<premai_build_input_messages, premai_build_output_messages,
                   set_span_messages_as_array, premai_emit_inference_event>>)
    \o <<set_status_ok, record_completion_metrics>>

premai_process_streaming_chat_response == premai_common_chat_logic(TRUE)

premai_process_chat_response ==
    <<response_as_dict({"text", "id", "model", "usage", "finish", "tools"})>>
    \o premai_common_chat_logic(FALSE)

premai_common_embedding_logic ==
    <<reported_tokens, common_span_attributes>>
    \o IfCapture(<<content_attributes>>)
    \o <<set_status_ok, record_embedding_metrics>>

premai_process_embedding_response ==
    <<response_as_dict({"usage", "model"})>> \o premai_common_embedding_logic

premai_TracedSyncStream ==
    IteratedOnce(premai_process_chunk, premai_process_streaming_chat_response)

premai_chat ==
    Streamed(Metered(premai_process_chat_response), premai_TracedSyncStream)

premai_embedding == Metered(premai_process_embedding_response)

-----------------------------------------------------------------------------
(* Reka (instrumentation/reka)                                                *)

reka_build_input_messages == Guarded(build_messages)
reka_build_output_messages == Guarded(build_messages)
reka_emit_inference_event == emit_inference_event

reka_common_chat_logic ==
    <<format_content, reported_tokens, common_span_attributes, tool_args>>
    \o IfCapture(<<reka_build_input_messages, reka_build_output_messages,
                   set_span_messages_as_array, reka_emit_inference_event>>)
    \o <<set_status_ok, record_completion_metrics>>

reka_process_chat_response ==
    <<response_as_dict({"text", "id", "model", "usage", "finish", "tools"})>>
    \o reka_common_chat_logic

reka_chat == Metered(reka_process_chat_response)
reka_async_chat == Async(Metered(reka_process_chat_response))

-----------------------------------------------------------------------------
(* Sarvam AI (instrumentation/sarvam); chat messages, translations and        *)
(* transcripts go on the span whatever the capture setting.                   *)

sarvam_process_chunk ==
    response_as_dict({"id", "model", "text", "finish", "usage"})

sarvam_build_input_messages == build_messages
sarvam_build_output_messages == build_messages
sarvam_emit_inference_event == emit_inference_event

sarvam_common_chat_logic ==
    <<reported_tokens, common_span_attributes, tool_args,
      sarvam_build_input_messages, sarvam_build_output_messages,
      set_span_messages_as_array>>
    \o IfCapture(<<sarvam_emit_inference_event>>)
    \o <<set_status_ok, record_completion_metrics>>

sarvam_process_streaming_chat_response == sarvam_common_chat_logic

sarvam_process_chat_response ==
    <<response_as_dict({"text", "id", "model", "finish", "usage"})>>
    \o sarvam_common_chat_logic

sarvam_process_translate_response ==
    <<response_as_dict({"text", "id"}), common_framework_span_attributes,
      If({"text"}, content_attributes)>>
    \o IfCapture(<<content_attributes>>)
    \o <<set_status_ok, record_completion_metrics>>

sarvam_process_speech_to_text_response ==
    <<response_as_dict({"text", "id"}), common_framework_span_attributes,
      If({"text"}, content_attributes)>>
    \o IfCapture(<<content_attributes>>)
    \o <<set_status_ok, record_audio_metrics>>

sarvam_process_text_to_speech_response ==
    <<common_framework_span_attributes>>
    \o IfCapture(<<content_attributes>>)
    \o <<set_status_ok, record_audio_metrics>>

sarvam_process_transliterate_response ==
    <<response_as_dict({"text", "id"}), common_framework_span_attributes,
      If({"text"}, content_attributes)>>
    \o IfCapture(<<content_attributes>>)
    \o <<set_status_ok, record_completion_metrics>>

sarvam_process_language_identification_response ==
    <<response_as_dict({"text", "id"}), common_framework_span_attributes>>
    \o IfCapture(<<content_attributes>>)
    \o <<set_status_ok, record_completion_metrics>>

sarvam_process_speech_to_text_translate_response ==
    <<response_as_dict({"text", "id"}), common_framework_span_attributes,
      If({"text"}, content_attributes)>>
    \o IfCapture(<<content_attributes>>)
    \o <<set_status_ok, record_audio_metrics>>

sarvam_TracedSyncStream ==
    Closing(sarvam_process_chunk, sarvam_process_streaming_chat_response)

sarvam_chat_completions ==
    Suppressible(Streamed(Metered(sarvam_process_chat_response),
                          sarvam_TracedSyncStream))

sarvam_TracedAsyncStream ==
    Closing(sarvam_process_chunk, sarvam_process_streaming_chat_response)

sarvam_async_chat_completions ==
    Async(Suppressible(Streamed(Metered(sarvam_process_chat_response),
                                sarvam_TracedAsyncStream)))

sarvam_text_translate ==
    Suppressible(Metered(sarvam_process_translate_response))

sarvam_async_text_translate ==
    Async(Suppressible(Metered(sarvam_process_translate_response)))

sarvam_speech_to_text_transcribe ==
    Suppressible(Metered(sarvam_process_speech_to_text_response))

sarvam_async_speech_to_text_transcribe ==
    Async(Suppressible(Metered(sarvam_process_speech_to_text_response)))

sarvam_text_to_speech_convert ==
    Suppressible(Metered(sarvam_process_text_to_speech_response))

sarvam_async_text_to_speech_convert ==
    Async(Suppressible(Metered(sarvam_process_text_to_speech_response)))

sarvam_text_transliterate ==
    Suppressible(Metered(sarvam_process_transliterate_response))

sarvam_async_text_transliterate ==
    Async(Suppressible(Metered(sarvam_process_transliterate_response)))

sarvam_text_identify_language ==
    Suppressible(Metered(sarvam_process_language_identification_response))

sarvam_async_text_identify_language ==
    Async(Suppressible(Metered(
                           sarvam_process_language_identification_response)))

sarvam_speech_to_text_translate ==
    Suppressible(Metered(sarvam_process_speech_to_text_translate_response))

sarvam_async_speech_to_text_translate ==
    Async(Suppressible(Metered(
                           sarvam_process_speech_to_text_translate_response)))

-----------------------------------------------------------------------------
(* Together AI (instrumentation/together)                                     *)

together_process_chunk ==
    response_as_dict({"id", "model", "usage", "finish", "text"})

together_common_chat_logic ==
    <<format_content, reported_tokens, common_span_attributes, tool_args>>
    \o IfCapture(<<content_attributes>>)
    \o <<set_status_ok, record_completion_metrics>>

together_process_streaming_chat_response == together_common_chat_logic

together_process_chat_response ==
    <<response_as_dict({"text", "id", "model", "usage", "finish", "tools"})>>
    \o together_common_chat_logic

together_common_image_logic ==
    <<common_span_attributes>>
    \o IfCapture(<<content_attributes>>)
    \o <<set_status_ok, record_image_metrics>>

together_process_image_response == together_common_image_logic

together_TracedSyncStream ==
    Replacing(together_process_chunk,
              together_process_streaming_chat_response)

together_completion ==
    Streamed(Metered(together_process_chat_response),
             together_TracedSyncStream)

together_TracedAsyncStream ==
    Replacing(together_process_chunk,
              together_process_streaming_chat_response)

together_async_completion ==
    Async(Streamed(Metered(together_process_chat_response),
                   together_TracedAsyncStream))

together_image_generate == Metered(together_process_image_response)

together_async_image_generate ==
    Async(Metered(together_process_image_response))

-----------------------------------------------------------------------------
(* Hugging Face Transformers (instrumentation/transformers): no try around    *)
(* the response logic                                                         *)

transformers_build_input_messages == build_messages
transformers_build_output_messages == build_messages
transformers_emit_inference_event == emit_inference_event

transformers_common_chat_logic ==
    <<common_span_attributes>>
    \o IfCapture(<<transformers_build_input_messages,
                   transformers_build_output_messages,
                   set_span_messages_as_array,
                   transformers_emit_inference_event>>)
    \o <<set_status_ok, record_completion_metrics>>

transformers_process_chat_response ==
    <<format_content, response_as_dict({"text"}), always_general_tokens>>
    \o transformers_common_chat_logic

transformers_pipeline_wrapper == Exposed(transformers_process_chat_response)

-----------------------------------------------------------------------------
(* vLLM (instrumentation/vllm); messages are set without asking for the       *)
(* capture setting.                                                           *)

vllm_build_input_messages == build_messages
vllm_build_output_messages == build_messages
vllm_emit_inference_event == emit_inference_event

vllm_common_chat_logic ==
    <<always_general_tokens, common_span_attributes,
      vllm_build_input_messages, vllm_build_output_messages,
      set_span_messages_as_array>>
    \o IfCapture(<<vllm_emit_inference_event>>)
    \o <<set_status_ok, record_completion_metrics>>

vllm_process_chat_response == vllm_common_chat_logic
vllm_generate == Metered(vllm_process_chat_response)

-----------------------------------------------------------------------------
\* Wrappers of operations that return a whole answer.
WholeCalls ==
    {ai21_chat_rag, ai21_async_chat_rag, azure_ai_inference_embed,
     azure_ai_inference_async_embed, bedrock_converse, cohere_chat,
     cohere_async_chat, cohere_embed, cohere_async_embed, elevenlabs_generate,
     elevenlabs_async_generate, google_ai_studio_generate,
     google_ai_studio_async_generate, gpt4all_embed, mistral_complete,
     mistral_async_complete, mistral_embed, mistral_async_embed,
     litellm_embedding, litellm_aembedding, ollama_embeddings,
     ollama_async_embeddings, openai_chat_completions_parse,
     openai_async_chat_completions_parse, openai_embedding,
     openai_async_embedding, openai_image_generate,
     openai_async_image_generate, openai_image_variatons,
     openai_async_image_variations, openai_audio_create,
     openai_async_audio_create, premai_embedding, reka_chat, reka_async_chat,
     sarvam_text_translate, sarvam_async_text_translate,
     sarvam_speech_to_text_transcribe, sarvam_async_speech_to_text_transcribe,
     sarvam_text_to_speech_convert, sarvam_async_text_to_speech_convert,
     sarvam_text_transliterate, sarvam_async_text_transliterate,
     sarvam_text_identify_language, sarvam_async_text_identify_language,
     sarvam_speech_to_text_translate, sarvam_async_speech_to_text_translate,
     together_image_generate, together_async_image_generate, vllm_generate}

\* Streams that start their span when they end.
StartingStreams ==
    {google_ai_studio_generate_stream, google_ai_studio_async_generate_stream}

\* Streams that finish the span started with the call.
ClosingStreams ==
    {anthropic_messages, anthropic_async_messages, litellm_completion,
     litellm_acompletion, openai_chat_completions,
     openai_async_chat_completions, openai_responses, openai_async_responses,
     sarvam_chat_completions, sarvam_async_chat_completions,
     vertexai_send_message, vertexai_async_send_message}

\* Streams that leave that span and write another one when they end.
ReplacingStreams ==
    {ai21_chat, ai21_async_chat, bedrock_converse_stream, cohere_chat_stream,
     cohere_async_chat_stream, gpt4all_generate, groq_chat, groq_async_chat,
     mistral_stream, mistral_async_stream, ollama_chat, ollama_async_chat,
     ollama_generate, ollama_async_generate, together_completion,
     together_async_completion}

\* Streams that report in __exit__.
LateStreams ==
    {azure_ai_inference_complete, azure_ai_inference_async_complete}

\* Wrappers that do not always hand on what the library did.
OpaqueCalls ==
    {assemblyai_transcribe, premai_chat, transformers_pipeline_wrapper}

\* Operations that estimate the tokens where the usage reported is zero.
EstimatingOnZero ==
    {openai_chat_completions, openai_async_chat_completions, openai_responses,
     openai_async_responses, openai_chat_completions_parse,
     openai_async_chat_completions_parse}

\* Operations that put message text on the span whatever the capture setting.
UngatedContent ==
    {cohere_chat, cohere_async_chat, cohere_chat_stream,
     cohere_async_chat_stream, gpt4all_generate, sarvam_chat_completions,
     sarvam_async_chat_completions, sarvam_text_translate,
     sarvam_async_text_translate, sarvam_speech_to_text_transcribe,
     sarvam_async_speech_to_text_transcribe, sarvam_text_transliterate,
     sarvam_async_text_transliterate, sarvam_speech_to_text_translate,
     sarvam_async_speech_to_text_translate, vllm_generate}
=============================================================================
