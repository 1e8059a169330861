------------------------------- MODULE MCSharing -------------------------------
EXTENDS Sharing

MCEntries == [e \in EntryIds |-> "v"]
===============================================================================
