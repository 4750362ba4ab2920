CONSTANTS
    a = a
    b = b
    c = c
    Conns <- MCConns
    Width = 5
    Height = 5
    Radius = 1
    Mazes <- MCMazes
SYMMETRY Symmetry
CONSTRAINT Bystander
SPECIFICATION Spec
INVARIANTS InTheOpen Conserved ExitScored InsideWalls ViewsAgree
