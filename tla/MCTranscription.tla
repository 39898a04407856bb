--------------------------- MODULE MCTranscription ---------------------------
\* Two operations of either kind, so that the second can meet what is left of
\* the first.
EXTENDS Transcription
=============================================================================
