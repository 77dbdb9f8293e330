----------------------------- MODULE MCPreview -----------------------------
EXTENDS Preview
=============================================================================
