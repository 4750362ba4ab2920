------------------------------- MODULE MCMaze -------------------------------
EXTENDS Maze
=============================================================================
