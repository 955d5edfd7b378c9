---- MODULE MCProcessingSync ----
EXTENDS ProcessingSync
====
