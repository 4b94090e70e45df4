------------------------ MODULE DiagnosticCollectorMC ------------------------
EXTENDS DiagnosticCollector, TLC
CONSTANTS c1, c2, d1
TwoCreators == {c1, c2}
OneDownload == {d1}
NoDownloads == {}
CreatorSymmetry == Permutations(TwoCreators)
=============================================================================
