------------------------------- MODULE MCWebPages ------------------------------
EXTENDS WebPages

\* two folders, one of them in the other's place too, and files in them
MCPaths == {<<1>>, <<1, 1>>, <<1, 1, 3>>, <<1, 3>>, <<2>>, <<2, 3>>, <<3>>}
MCFolders == {<<1>>, <<1, 1>>, <<2>>}
================================================================================
