CONSTANTS Ids = {s1, s2}
          OutputSizes <- Output
          SurfaceSizes <- Square
          Origins <- Corners
          Draws = 2
SPECIFICATION Spec
PROPERTY ImplementsCanvas
VIEW Memory
SYMMETRY Swaps
