----------------------------- MODULE MCLlmCalls -----------------------------
EXTENDS LlmCalls
=============================================================================
