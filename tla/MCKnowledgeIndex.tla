-------------------------- MODULE MCKnowledgeIndex --------------------------
EXTENDS KnowledgeIndex
=============================================================================
